---------------------------- MODULE Spec2Model ----------------------------
(***************************************************************************)
(* Model of the onera enclave gateway (infra/enclave): the admission loop  *)
(* of the Noise WebSocket server, the responder handshake of one client    *)
(* session, and the post-handshake message loop with its dispatch to the   *)
(* local inference backend (server mode) or to the router (router mode).   *)
(*                                                                         *)
(* Spec      one client session, from the spawn of its task to its end.    *)
(* FairSpec  Spec with weak fairness on the steps the runtime drives       *)
(*           (timers, the task's own steps, the backend's answers); the    *)
(*           client is never obliged to send anything.                     *)
(* SpecAdmit the accept loop and its semaphore, sessions counted.          *)
(* SpecHttp  main's start-up (key pair, attestation service), the HTTP     *)
(*           routes, and the responders built from the key pair.           *)
(* SpecQuote generate_mock_quote applied to a service and a nonce.         *)
(***************************************************************************)
EXTENDS Integers, Sequences, FiniteSets, TLC

(***************************************************************************)
(* Program constants                                                       *)
(***************************************************************************)
\* noise.rs:33  const MAX_CONCURRENT_CONNECTIONS: usize = 100
MAX_CONCURRENT_CONNECTIONS == 100
\* noise.rs:36  const MESSAGE_READ_TIMEOUT = Duration::from_secs(600)
MESSAGE_READ_TIMEOUT == 600
\* inference.rs:138  mpsc::channel(32)
CHANNEL_CAPACITY == 32
\* noise.rs:185  handshake message 1 is 48 bytes (32 ephemeral + 16 tag)
HANDSHAKE1_LEN == 48

(***************************************************************************)
(* Bounds of the model                                                     *)
(***************************************************************************)
\* frames the client sends after the handshake
MaxFrames == 2
\* SSE events (or downstream chunks) one streamed answer carries
MaxEvents == 2
\* seconds that pass in one step of the clock
TickSecs == 300
\* connections waiting at the listener
MaxBacklog == 2
\* rejected connections that are counted
MaxDropped == 2

VARIABLES
    mode,        \* AppState.mode: "Server" or "Router"
    pc,          \* position of the session task
    result,      \* what handle_connection returned
    permitHeld,  \* the task still owns its semaphore permit
    hsIn,        \* the first frame read from the client
    hsReads,     \* handshake messages the responder has read
    hsWrites,    \* handshake messages put on the wire
    transport,   \* the TransportState exists (into_transport_mode was called)
    sendN,       \* nonce counter of the sending cipher state
    recvN,       \* nonce counter of the receiving cipher state
    lastIn,      \* the last frame read from the client
    out,         \* frames sent to the client since lastIn was read
    framesLeft,  \* frames the client may still send
    waited,      \* seconds the current read of the loop has been pending
    req,         \* the request being served
    todo,        \* bodies the current branch still has to send, in order
    chan,        \* the mpsc channel of a streamed answer
    prod,        \* the task feeding chan: "idle", "running", "closed"
    evLeft,      \* events the streamed source may still deliver
    calls,       \* backend or router calls made for lastIn
    log,         \* log lines written, each with the data it carries
    permits,     \* free permits of connection_semaphore
    live,        \* spawned session tasks that have not finished
    backlog,     \* connections waiting in listener.accept()
    dropped,     \* connections rejected at accept
    lastAccept,  \* what the accept loop did last
    boot,        \* position of main: "none", "start", "keyed", "serving"
    noise_server,  \* AppState.noise_server: the static key pair
    attestation, \* AppState.attestation: the AttestationService
    responder,   \* the local private key of the last responder built
    httpReq,     \* the last request the HTTP server received
    httpResp,    \* the last response of the HTTP server
    imdsReply,   \* what IMDS answered to the last generate_quote
    imdsCalls,   \* requests for the IMDS attested document made so far
    srvLog,      \* log lines of main and of the HTTP handlers
    httpLeft,    \* HTTP requests that may still arrive
    nonce,       \* generate_mock_quote: its argument
    report_data, \* generate_mock_quote: its local report_data
    quote,       \* generate_mock_quote: its local quote
    mockQuote,   \* generate_mock_quote: the AttestationQuote it returned
    config,      \* Router.config.servers
    model_to_server,   \* Router.model_to_server
    connections, \* Router.connections: server id -> ServerConnection
    public_key_cache,  \* Router.public_key_cache: server id -> hex key
    serverKey,   \* the static public key each downstream enclave has now
    rpc,         \* position of forward_request
    model_id,    \* forward_request: the model of the request
    server_id,   \* ensure_connection: the server of the model
    server_public_key,  \* connect_to_server: the key get_public_key returned
    attempts,    \* connect_to_server calls of the current ensure_connection
    keySrc,      \* where get_public_key took the key: static, cache, fetch
    rResult,     \* what forward_request returned
    hpc,         \* position of run_health_checks
    server_ids,  \* run_health_checks: the servers the tick has still to ping
    ping_result, \* run_health_checks: what the last ping came to
    hcDead,      \* run_health_checks: the server whose key is to be invalidated
    evicted,     \* servers whose connection was removed and not made again
    lock,        \* the task holding connections.write(), if any
    requests,    \* the forward_request calls running side by side, per task
    server_config,    \* get_attestation_endpoint: the ModelServerConfig
    attestation_url,  \* get_attestation_endpoint: what it returned
    sse_stream,  \* the SSE task: bytes of the response body still to come
    buffer,      \* the SSE task: its local buffer
    sse_out,     \* the SSE task: the chunks it has sent on tx
    sse_pc       \* the SSE task: "running", "returned"

sessVars == <<mode, pc, result, permitHeld, hsIn, hsReads, hsWrites, transport,
              sendN, recvN, lastIn, out, framesLeft, waited, req, todo,
              chan, prod, evLeft, calls, log>>
admitVars == <<permits, live, backlog, dropped, lastAccept>>
attVars == <<boot, noise_server, attestation, responder, httpReq, httpResp,
             imdsReply, imdsCalls, srvLog, httpLeft, nonce, report_data, quote,
             mockQuote>>
reqVars == <<rpc, model_id, server_id, server_public_key, attempts, keySrc, rResult>>
hcVars == <<hpc, server_ids, ping_result, hcDead>>
poolVars == <<lock, requests>>
rtVars == <<config, model_to_server, connections, public_key_cache, serverKey,
            reqVars, hcVars, evicted, poolVars>>
fnVars == <<server_config, attestation_url, sse_stream, buffer, sse_out, sse_pc>>
vars == <<sessVars, admitVars, attVars, rtVars, fnVars>>

(***************************************************************************)
(* Values                                                                  *)
(***************************************************************************)
\* OperatingMode (main.rs)
Modes == {"Server", "Router"}

\* a decrypted record: json = it parses as InferenceRequest; text names its
\* content (the chat messages, or the bytes that do not parse)
NoRequest == [json |-> FALSE, stream |-> FALSE, model |-> "none", text |-> ""]
Junk == [json |-> FALSE, stream |-> FALSE, model |-> "none", text |-> "junk"]
Requests == [json : {TRUE}, stream : BOOLEAN, model : {"none", "m1"}, text : {"q"}]
Plaintexts == {Junk} \cup Requests

\* frames a client can send once the transport exists (tungstenite Message)
NoFrame == [type |-> "none", ok |-> FALSE, pt |-> NoRequest, pay |-> ""]
BinaryIn(ok, pt) == [type |-> "Binary", ok |-> ok, pt |-> pt, pay |-> ""]
ControlIn(t, p) == [type |-> t, ok |-> FALSE, pt |-> NoRequest, pay |-> p]
PingPayloads == {"p1", "p2"}

\* the first frame of a session: a binary frame of some length whose tag
\* verifies or not, or another kind of frame
NoHsFrame == [type |-> "none", len |-> 0, tagOk |-> FALSE]
HsFrames == [type : {"Binary"}, len : {HANDSHAKE1_LEN - 1, HANDSHAKE1_LEN}, tagOk : BOOLEAN]
            \cup [type : {"Text", "Ping", "Pong", "Close"}, len : {0}, tagOk : {FALSE}]

\* bodies of what is sent: InferenceResponse and StreamChunk as JSON values
Response(content, fin, err) ==
    [kind |-> "response", text |-> content, fin |-> fin, err |-> err]
Delta(t) == [kind |-> "text-delta", text |-> t, fin |-> "", err |-> ""]
FinishChunk(reason) == [kind |-> "finish", text |-> "", fin |-> reason, err |-> ""]
ErrorChunk(m) == [kind |-> "error", text |-> "", fin |-> "", err |-> m]
Empty == [kind |-> "empty", text |-> "", fin |-> "", err |-> ""]
Hs2Body == [kind |-> "handshake2", text |-> "", fin |-> "", err |-> ""]
PongBody(p) == [kind |-> "pong", text |-> p, fin |-> "", err |-> ""]

\* a pong that does not echo the payload of the ping
PongFrameNoPayload(p) == [type |-> "Pong", enc |-> FALSE, n |-> -1, body |-> PongBody("")]

\* a cipher state that seals every record with the nonce 0
EncryptNonceZero(n, body) == [type |-> "Binary", enc |-> TRUE, n |-> 0, body |-> body]

\* the serialized body sent as it is, without the transport
SentInClear(n, body) == [type |-> "Binary", enc |-> FALSE, n |-> -1, body |-> body]

\* frames on the wire towards the client
\* transport.write_message: the record carries the nonce it was sealed with
Encrypt(n, body) == [type |-> "Binary", enc |-> TRUE, n |-> n, body |-> body]
\* Message::Binary(vec![]): the zero-length terminator
Terminator == [type |-> "Binary", enc |-> FALSE, n |-> -1, body |-> Empty]
Hs2Frame == [type |-> "Binary", enc |-> FALSE, n |-> -1, body |-> Hs2Body]
PongFrame(p) == [type |-> "Pong", enc |-> FALSE, n |-> -1, body |-> PongBody(p)]

\* results of handle_connection: anyhow errors carry a message and, possibly,
\* data that came from outside
Running == [done |-> FALSE, ok |-> FALSE, msg |-> "", data |-> {}]
OkResult == [done |-> TRUE, ok |-> TRUE, msg |-> "", data |-> {}]
Err(m, d) == [done |-> TRUE, ok |-> FALSE, msg |-> m, data |-> d]

LogLine(level, m, d) == [level |-> level, msg |-> m, data |-> d]


(***************************************************************************)
(* The key authority and the attestation service: values                   *)
(***************************************************************************)
\* NoiseServer before NoiseServer::new
NoKeys == [private_key |-> <<>>, public_key |-> <<>>]

\* AttestationService before AttestationService::new
NoService == [public_key |-> <<>>, public_key_hash |-> <<>>, is_azure |-> FALSE]

\* Option<&[u8]>: None, or Some(bytes)
NoNonce == [some |-> FALSE, bytes |-> <<>>]
SomeNonce(bytes) == [some |-> TRUE, bytes |-> bytes]

\* AttestationQuote, the JSON body of an attestation response; strings are
\* sequences of characters, azure_encoding is "" when it is None
AttestationQuote(q, pk, pkh, rd, type, encoding) ==
    [quote |-> q, public_key |-> pk, public_key_hash |-> pkh, report_data |-> rd,
     attestation_type |-> type, azure_encoding |-> encoding]
NoQuote == AttestationQuote(<<>>, <<>>, <<>>, <<>>, "", "")

\* an HTTP response: its route, its status and its body (the text of
\* /health, the list of /models, the quote of /attestation)
HttpResponse(route, status, text, models, att) ==
    [route |-> route, status |-> status, text |-> text, models |-> models, att |-> att]
NoHttpResponse == HttpResponse("", 0, <<>>, <<>>, NoQuote)

\* AttestationRequest.nonce, an Option<String>: None, or Some(string); a
\* string is the sequence of its code points
NoNonceText == [some |-> FALSE, chars |-> <<>>]
SomeNonceText(chars) == [some |-> TRUE, chars |-> chars]

\* an HTTP request: its method, its path and the nonce of its JSON body
HttpRequest(method, route, n) == [method |-> method, route |-> route, nonce |-> n]
NoHttpRequest == HttpRequest("", "", NoNonceText)

\* the reply of IMDS when no request for the document was made
NoImdsReply == [ok |-> FALSE, signature |-> <<>>, encoding |-> "", error |-> ""]

\* the state of main, of the HTTP server and of generate_mock_quote while
\* they are not looked at
AttInert ==
    /\ boot = "none"
    /\ noise_server = NoKeys
    /\ attestation = NoService
    /\ responder = <<>>
    /\ httpReq = NoHttpRequest
    /\ httpResp = NoHttpResponse
    /\ imdsReply = NoImdsReply
    /\ imdsCalls = 0
    /\ srvLog = {}
    /\ httpLeft = 0
    /\ nonce = NoNonce
    /\ report_data = <<>>
    /\ quote = <<>>
    /\ mockQuote = NoQuote

\* the state of the router while it is not looked at
RtInert ==
    /\ config = <<>>
    /\ model_to_server = <<>>
    /\ connections = <<>>
    /\ public_key_cache = <<>>
    /\ serverKey = <<>>
    /\ rpc = "none"
    /\ model_id = ""
    /\ server_id = ""
    /\ server_public_key = <<>>
    /\ attempts = 0
    /\ keySrc = "none"
    /\ rResult = [done |-> FALSE, ok |-> FALSE, msg |-> ""]
    /\ hpc = "none"
    /\ server_ids = {}
    /\ ping_result = "none"
    /\ hcDead = ""
    /\ evicted = {}
    /\ lock = "none"
    /\ requests = <<>>

\* no endpoint is derived and no SSE task runs
FnInert ==
    /\ server_config = <<>>
    /\ attestation_url = <<>>
    /\ sse_stream = <<>>
    /\ buffer = <<>>
    /\ sse_out = <<>>
    /\ sse_pc = "none"

(***************************************************************************)
(* The end of a session task                                               *)
(***************************************************************************)
\* run_websocket_server logs the error handle_connection returned
ConnectionErrorLog(res) ==
    IF res.ok THEN {} ELSE {LogLine("error", "Connection error", {res.msg} \cup res.data)}

\* handle_connection returns res: the task ends, its permit is dropped with it,
\* and so are the transport, the socket and the receiving end of any channel
Finish(res, lines) ==
    /\ pc' = "done"
    /\ result' = res
    /\ permitHeld' = FALSE
    /\ permits' = permits + 1
    /\ live' = live - 1
    /\ log' = log \cup lines \cup ConnectionErrorLog(res)
    /\ chan' = <<>>
    /\ todo' = <<>>

\* the I/O error of the socket (tungstenite's error, no session data in it)
IoError == Err("io error", {})

(***************************************************************************)
(* handle_connection: WebSocket accept and the responder handshake         *)
(***************************************************************************)
\* accept_async(stream).await? and create_responder
WsAccept(ok) ==
    /\ pc = "ws_accept"
    /\ IF ok
         THEN /\ pc' = "hs_read"
              /\ log' = log \cup {LogLine("debug", "Created Noise responder", {"pubkey"})}
              /\ UNCHANGED <<result, permitHeld, permits, live, chan, todo>>
         ELSE Finish(Err("WebSocket protocol error", {}), {})
    /\ UNCHANGED <<rtVars, fnVars, attVars, mode, hsIn, hsReads, hsWrites, transport, sendN, recvN, lastIn, out,
                   framesLeft, waited, req, prod, evLeft, calls, backlog, dropped,
                   lastAccept>>

\* a read_message that does not verify the tag
ReadMessage1NoTag(f) == f.len = HANDSHAKE1_LEN

\* handshake.read_message on message 1: -> e, es with an empty payload
ReadMessage1Ok(f) == f.len = HANDSHAKE1_LEN /\ f.tagOk

\* read.next() yields the first frame f; a binary frame goes to read_message
\* and, when that succeeds, write_message fills the buffer with message 2
HsRecv(f) ==
    /\ pc = "hs_read"
    /\ hsIn' = f
    /\ IF f.type # "Binary"
         THEN /\ Finish(Err("Expected binary message for handshake", {}), {})
              /\ UNCHANGED hsReads
         ELSE IF ReadMessage1Ok(f)
           THEN /\ hsReads' = hsReads + 1
                /\ pc' = "hs_send"
                /\ log' = log \cup {LogLine("debug", "Received handshake message", {"hs1"})}
                /\ UNCHANGED <<result, permitHeld, permits, live, chan, todo>>
           ELSE /\ Finish(Err("Noise handshake failed", {}),
                          {LogLine("debug", "Received handshake message", {"hs1"}),
                           LogLine("error", "Handshake FAILED", {"hs1"})})
                /\ UNCHANGED hsReads
    /\ UNCHANGED <<rtVars, fnVars, attVars, mode, hsWrites, transport, sendN, recvN, lastIn, out, framesLeft,
                   waited, req, prod, evLeft, calls, backlog, dropped, lastAccept>>

\* read.next() yields None (closed) or Some(Err) before any frame
HsReadFail(closed) ==
    /\ pc = "hs_read"
    /\ Finish(IF closed THEN Err("Connection closed during handshake", {}) ELSE IoError, {})
    /\ UNCHANGED <<rtVars, fnVars, attVars, mode, hsIn, hsReads, hsWrites, transport, sendN, recvN, lastIn, out,
                   framesLeft, waited, req, prod, evLeft, calls, backlog, dropped,
                   lastAccept>>

\* a responder that goes on without putting message 2 on the wire
HsSendSkipped(ok) ==
    /\ pc = "hs_send"
    /\ pc' = "hs_finish"
    /\ UNCHANGED <<rtVars, fnVars, attVars, mode, hsIn, hsReads, hsWrites, out, result, permitHeld, permits, live,
                   chan, todo, log, transport, sendN, recvN, lastIn, framesLeft, waited,
                   req, prod, evLeft, calls, backlog, dropped, lastAccept>>

\* write.send(Message::Binary(buf[..len])).await? : message 2 goes out
HsSend(ok) ==
    /\ pc = "hs_send"
    /\ IF ok
         THEN /\ out' = Append(out, Hs2Frame)
              /\ hsWrites' = hsWrites + 1
              /\ pc' = "hs_finish"
              /\ UNCHANGED <<result, permitHeld, permits, live, chan, todo, log>>
         ELSE /\ Finish(IoError, {})
              /\ UNCHANGED <<out, hsWrites>>
    /\ UNCHANGED <<rtVars, fnVars, attVars, mode, hsIn, hsReads, transport, sendN, recvN, lastIn, framesLeft,
                   waited, req, prod, evLeft, calls, backlog, dropped, lastAccept>>

\* one deadline for the whole session instead of one per read
ReadDeadlineKept(w) == w

\* timeout(MESSAGE_READ_TIMEOUT, read.next()): every read gets a new deadline
ReadDeadlineStart(w) == 0

\* is_handshake_finished, into_transport_mode, and the first read of the loop
IntoTransport ==
    /\ pc = "hs_finish"
    /\ transport' = TRUE
    /\ pc' = "loop_read"
    /\ waited' = ReadDeadlineStart(waited)
    /\ log' = log \cup {LogLine("info", "Noise handshake complete", {})}
    /\ UNCHANGED <<rtVars, fnVars, attVars, mode, hsIn, result, permitHeld, hsReads, hsWrites, sendN, recvN, lastIn,
                   out, framesLeft, req, todo, chan, prod, evLeft, calls, admitVars>>

(***************************************************************************)
(* handle_messages: the reads of the loop                                  *)
(***************************************************************************)
\* the Err(_) arm of timeout(..): the deadline of the pending read has passed
DeadlineExpired(w) == w >= MESSAGE_READ_TIMEOUT

\* a read of the loop is pending and a frame can still arrive in time
Reading == pc = "loop_read" /\ ~DeadlineExpired(waited)

\* a frame f is taken from the socket: what was sent for the frame before it
\* is no longer looked at
Take(f) ==
    /\ framesLeft > 0
    /\ framesLeft' = framesLeft - 1
    /\ lastIn' = f
    /\ out' = <<>>
    /\ calls' = 0

\* time passes while the read is pending
Tick ==
    /\ Reading
    /\ waited' = IF waited + TickSecs < MESSAGE_READ_TIMEOUT
                   THEN waited + TickSecs
                   ELSE MESSAGE_READ_TIMEOUT
    /\ UNCHANGED <<rtVars, fnVars, attVars, mode, hsIn, pc, result, permitHeld, hsReads, hsWrites, transport, sendN,
                   recvN, lastIn, out, framesLeft, req, todo, chan, prod, evLeft,
                   calls, log, admitVars>>

\* Err(_) => return Err(anyhow!("Connection timed out"))
ReadTimeout ==
    /\ pc = "loop_read"
    /\ DeadlineExpired(waited)
    /\ Finish(Err("Connection timed out", {}),
              {LogLine("warn", "Connection timed out", {})})
    /\ UNCHANGED <<rtVars, fnVars, attVars, mode, hsIn, hsReads, hsWrites, transport, sendN, recvN, lastIn, out,
                   framesLeft, waited, req, prod, evLeft, calls, backlog, dropped,
                   lastAccept>>

\* Ok(None) => break (closed = TRUE), or Ok(Some(Err(e))) => msg? fails
RecvEnd(closed) ==
    /\ Reading
    /\ Finish(IF closed THEN OkResult ELSE IoError, {})
    /\ UNCHANGED <<rtVars, fnVars, attVars, mode, hsIn, hsReads, hsWrites, transport, sendN, recvN, lastIn, out,
                   framesLeft, waited, req, prod, evLeft, calls, backlog, dropped,
                   lastAccept>>

\* Message::Close(_) => break
RecvClose ==
    /\ Reading
    /\ Take(ControlIn("Close", ""))
    /\ Finish(OkResult, {LogLine("info", "Client requested close", {})})
    /\ UNCHANGED <<rtVars, fnVars, attVars, mode, hsIn, hsReads, hsWrites, transport, sendN, recvN, waited, req,
                   prod, evLeft, backlog, dropped, lastAccept>>

\* Message::Ping(data) => write.send(Message::Pong(data)).await?
RecvPing(p, sendOk) ==
    /\ Reading
    /\ framesLeft > 0
    /\ framesLeft' = framesLeft - 1
    /\ lastIn' = ControlIn("Ping", p)
    /\ calls' = 0
    /\ IF sendOk
         THEN /\ out' = <<PongFrame(p)>>
              /\ pc' = "loop_read"
              /\ waited' = ReadDeadlineStart(waited)
              /\ UNCHANGED <<result, permitHeld, permits, live, chan, todo, log>>
         ELSE /\ out' = <<>>
              /\ Finish(IoError, {})
              /\ UNCHANGED waited
    /\ UNCHANGED <<rtVars, fnVars, attVars, mode, hsIn, hsReads, hsWrites, transport, sendN, recvN, req, prod,
                   evLeft, backlog, dropped, lastAccept>>

\* the frames the last arm of the match takes: Text and Pong
OtherFrameTypes == {"Text", "Pong"}

\* _ => warn!("Unexpected message type"): the loop goes on
RecvOther(t) ==
    /\ Reading
    /\ Take(ControlIn(t, ""))
    /\ pc' = "loop_read"
    /\ waited' = ReadDeadlineStart(waited)
    /\ log' = log \cup {LogLine("warn", "Unexpected message type", {})}
    /\ UNCHANGED <<rtVars, fnVars, attVars, mode, hsIn, result, permitHeld, hsReads, hsWrites, transport, sendN,
                   recvN, req, todo, chan, prod, evLeft, permits, live, backlog,
                   dropped, lastAccept>>

\* a parse error that quotes the record it could not parse
ParseErrorWithExcerpt(pt) == Err("Failed to parse request: invalid JSON format", {pt.text})

\* serde_json::from_slice(plaintext).map_err(|_| anyhow!(..)): the error of a
\* record that does not parse has a fixed message and none of the plaintext
ParseError(pt) == Err("Failed to parse request: invalid JSON format", {})

\* where the match on mode and request.stream sends a parsed request
DispatchPc(m, r) ==
    IF m = "Server"
      THEN IF r.stream THEN "stream_open" ELSE "backend_call"
      ELSE IF r.stream THEN "router_open" ELSE "router_call"

\* Message::Binary(ciphertext): transport.read_message, the parse, the dispatch
RecvBinary(ok, pt) ==
    /\ Reading
    /\ Take(BinaryIn(ok, pt))
    /\ IF ~ok
         THEN /\ Finish(Err("decrypt error", {}), {})
              /\ UNCHANGED <<recvN, req, waited>>
         ELSE /\ recvN' = recvN + 1
              /\ IF ~pt.json
                   THEN /\ Finish(ParseError(pt), {})
                        /\ UNCHANGED <<req, waited>>
                   ELSE /\ req' = pt
                        /\ pc' = DispatchPc(mode, pt)
                        /\ log' = log \cup
                               {LogLine("info", "Received inference request", {pt.model}),
                                LogLine("info", "Processing in mode", {})}
                        /\ UNCHANGED <<result, permitHeld, permits, live, chan, todo,
                                       waited>>
    /\ UNCHANGED <<rtVars, fnVars, attVars, mode, hsIn, hsReads, hsWrites, transport, sendN, prod, evLeft, backlog,
                   dropped, lastAccept>>

(***************************************************************************)
(* handle_messages: sending what a branch of the dispatch produced         *)
(***************************************************************************)
\* the read that follows "Response sent successfully"
BackToRead ==
    /\ pc' = "loop_read"
    /\ waited' = ReadDeadlineStart(waited)

\* one send of the current branch. A body other than Empty is serialized,
\* sealed by transport.write_message (which can fail: the sealed record must
\* fit the 65536-byte buffer) and sent as a binary frame; Empty is sent as
\* Message::Binary(vec![]) without the transport. Every step can fail with ?.
SendNext(encOk, sendOk) ==
    /\ pc = "send"
    /\ todo # <<>>
    /\ LET body == Head(todo)
           sealed == body # Empty
       IN  IF sealed /\ ~encOk
             THEN /\ Finish(Err("encrypt error", {}), {})
                  /\ UNCHANGED <<sendN, out, waited>>
             ELSE /\ sendN' = IF sealed THEN sendN + 1 ELSE sendN
                  /\ IF ~sendOk
                       THEN /\ Finish(IoError, {})
                            /\ UNCHANGED <<out, waited>>
                       ELSE /\ out' = Append(out, IF sealed THEN Encrypt(sendN, body)
                                                            ELSE Terminator)
                            /\ todo' = Tail(todo)
                            /\ IF Tail(todo) = <<>>
                                 THEN BackToRead
                                 ELSE UNCHANGED <<pc, waited>>
                            /\ UNCHANGED <<result, permitHeld, permits, live, chan, log>>
    /\ UNCHANGED <<rtVars, fnVars, attVars, mode, hsIn, hsReads, hsWrites, transport, recvN, lastIn, framesLeft, req,
                   prod, evLeft, calls, backlog, dropped, lastAccept>>

(***************************************************************************)
(* Server mode, stream = false                                             *)
(***************************************************************************)
\* process_inference_local: the response made of chat_completion's result
LocalResponse(ok) ==
    IF ok THEN Response("content", "stop", "") ELSE Response("", "", "vllm error")

\* the non-streaming branch ending with a terminator, as router mode does
LocalSendsWithTerminator(resp) == <<resp, Empty>>

\* what the non-streaming branch of server mode sends: the response alone
LocalSends(resp) == <<resp>>

\* process_inference_local(inference, request).await and its log lines
BackendCall(ok) ==
    /\ pc = "backend_call"
    /\ calls' = calls + 1
    /\ todo' = LocalSends(LocalResponse(ok))
    /\ pc' = "send"
    /\ log' = log \cup
           (IF ok THEN {LogLine("info", "Inference response", {})}
                  ELSE {LogLine("error", "Local inference error", {"vllm error"}),
                        LogLine("info", "Inference response", {"vllm error"})})
    /\ UNCHANGED <<rtVars, fnVars, attVars, mode, hsIn, result, permitHeld, hsReads, hsWrites, transport, sendN, recvN,
                   lastIn, out, framesLeft, waited, req, chan, prod, evLeft, admitVars>>

(***************************************************************************)
(* Server mode, stream = true                                              *)
(***************************************************************************)
\* a refused stream answered with the error response alone
StreamRefusedNoTerminator(e) == <<Response("", "", e)>>

\* what is sent when chat_completion_stream returned Err: the error response,
\* then the terminator
StreamRefusedSends(e) == <<Response("", "", e), Empty>>

\* what is sent once rx.recv() returned None: the terminator
StreamEndSends == <<Empty>>

\* inference.chat_completion_stream(request).await: the backend refuses (the
\* request fails or the status is not 2xx) or the SSE task is spawned
StreamOpen(ok) ==
    /\ pc = "stream_open"
    /\ calls' = calls + 1
    /\ IF ok
         THEN /\ pc' = "stream_recv"
              /\ chan' = <<>>
              /\ prod' = "running"
              /\ evLeft' = MaxEvents
              /\ UNCHANGED <<todo, log>>
         ELSE /\ pc' = "send"
              /\ todo' = StreamRefusedSends("vllm error")
              /\ log' = log \cup {LogLine("error", "vLLM streaming error", {"vllm error"}),
                                  LogLine("error", "Streaming error", {"vllm error"})}
              /\ UNCHANGED <<chan, prod, evLeft>>
    /\ UNCHANGED <<rtVars, fnVars, attVars, mode, hsIn, result, permitHeld, hsReads, hsWrites, transport, sendN, recvN,
                   lastIn, out, framesLeft, waited, req, admitVars>>

\* the chunks one SSE event makes the task send, by the shape of its data:
\*   done          data: [DONE]
\*   delta         a choice with non-empty delta.content and no finish_reason
\*   empty         a choice whose delta.content is empty or absent
\*   junk          no data line, data that does not parse, or no choice
\*   delta_finish  a choice with content and a finish_reason
\*   finish        a choice with a finish_reason and no content
SseEvents == {"done", "delta", "empty", "junk", "delta_finish", "finish"}
\* an SSE task that returns on [DONE] without sending the finish chunk
SseChunksDoneSilent(ev) ==
    CASE ev = "delta" -> <<Delta("content")>>
      [] ev = "delta_finish" -> <<Delta("content"), FinishChunk("length")>>
      [] ev = "finish" -> <<FinishChunk("length")>>
      [] OTHER -> <<>>
SseChunks(ev) ==
    CASE ev = "done" -> <<FinishChunk("stop")>>
      [] ev = "delta" -> <<Delta("content")>>
      [] ev = "delta_finish" -> <<Delta("content"), FinishChunk("length")>>
      [] ev = "finish" -> <<FinishChunk("length")>>
      [] OTHER -> <<>>
\* the events after which the task returns
SseFinal(ev) == ev \in {"done", "delta_finish", "finish"}

\* a channel that hands over the newest chunk first
PushFront(items) == IF pc = "stream_recv" THEN items \o chan ELSE chan

\* tx.send(..).await: the chunk is queued while the receiver exists; the
\* result of the send is ignored
Push(items) == IF pc = "stream_recv" THEN chan \o items ELSE chan

\* the spawned task takes one complete SSE event from the byte stream
SseEvent(ev) ==
    /\ mode = "Server"
    /\ prod = "running"
    /\ evLeft > 0
    /\ Len(chan) + Len(SseChunks(ev)) <= CHANNEL_CAPACITY
    /\ evLeft' = evLeft - 1
    /\ chan' = Push(SseChunks(ev))
    /\ prod' = IF SseFinal(ev) THEN "closed" ELSE "running"
    /\ UNCHANGED <<rtVars, fnVars, attVars, mode, hsIn, pc, result, permitHeld, hsReads, hsWrites, transport, sendN,
                   recvN, lastIn, out, framesLeft, waited, req, todo, calls, log,
                   admitVars>>

\* the byte stream ends without a finish (ok), or yields an error
SseStreamEnd(ok) ==
    /\ mode = "Server"
    /\ prod = "running"
    /\ Len(chan) < CHANNEL_CAPACITY
    /\ chan' = Push(<<IF ok THEN FinishChunk("stop") ELSE ErrorChunk("stream error")>>)
    /\ prod' = "closed"
    /\ log' = log \cup (IF ok THEN {} ELSE {LogLine("error", "Stream error", {"stream error"})})
    /\ UNCHANGED <<rtVars, fnVars, attVars, mode, hsIn, pc, result, permitHeld, hsReads, hsWrites, transport, sendN,
                   recvN, lastIn, out, framesLeft, waited, req, todo, evLeft, calls,
                   admitVars>>

\* while let Some(chunk) = rx.recv().await: one chunk is sealed and sent
StreamRecv(encOk, sendOk) ==
    /\ mode = "Server"
    /\ pc = "stream_recv"
    /\ chan # <<>>
    /\ LET chunk == Head(chan)
       IN  IF ~encOk
             THEN /\ Finish(Err("encrypt error", {}), {})
                  /\ UNCHANGED <<sendN, out>>
             ELSE /\ sendN' = sendN + 1
                  /\ IF ~sendOk
                       THEN /\ Finish(IoError, {})
                            /\ UNCHANGED out
                       ELSE /\ out' = Append(out, Encrypt(sendN, chunk))
                            /\ chan' = Tail(chan)
                            /\ log' = log \cup {LogLine("debug", "Sent stream chunk",
                                                        {chunk.text, chunk.fin, chunk.err})}
                            /\ UNCHANGED <<pc, result, permitHeld, permits, live, todo>>
    /\ UNCHANGED <<rtVars, fnVars, attVars, mode, hsIn, hsReads, hsWrites, transport, recvN, lastIn, framesLeft, waited,
                   req, prod, evLeft, calls, backlog, dropped, lastAccept>>

\* rx.recv() returns None: every sender is gone and the channel is empty
StreamEnd ==
    /\ mode = "Server"
    /\ pc = "stream_recv"
    /\ chan = <<>>
    /\ prod = "closed"
    /\ todo' = StreamEndSends
    /\ pc' = "send"
    /\ UNCHANGED <<rtVars, fnVars, attVars, mode, hsIn, result, permitHeld, hsReads, hsWrites, transport, sendN, recvN,
                   lastIn, out, framesLeft, waited, req, chan, prod, evLeft, calls, log,
                   admitVars>>

(***************************************************************************)
(* Router mode                                                             *)
(***************************************************************************)
\* process_inference_routed: forward_request's response (the downstream
\* server's answer, which may itself carry an error), or its error as one
RouterOutcomes == {"ok", "downstream_error", "fail"}
RoutedResponse(o) ==
    CASE o = "ok" -> Response("content", "stop", "")
      [] o = "downstream_error" -> Response("", "", "vllm error")
      [] OTHER -> Response("", "", "router error")

\* the non-streaming branch of router mode without its terminator, as server
\* mode does
RoutedSendsNoTerminator(resp) == <<resp>>

\* what the non-streaming branch of router mode sends: the response, then
\* the terminator
RoutedSends(resp) == <<resp, Empty>>

\* process_inference_routed(&router, request).await and its log lines
RouterCall(o) ==
    /\ pc = "router_call"
    /\ calls' = calls + 1
    /\ todo' = RoutedSends(RoutedResponse(o))
    /\ pc' = "send"
    /\ log' = log \cup
           {LogLine("info", "Router mode: forwarding to model server", {}),
            LogLine("info", "Inference response", {RoutedResponse(o).err})}
           \cup (IF o = "fail"
                   THEN {LogLine("error", "Routed inference error", {"router error"})}
                   ELSE {})
    /\ UNCHANGED <<rtVars, fnVars, attVars, mode, hsIn, result, permitHeld, hsReads, hsWrites, transport, sendN, recvN,
                   lastIn, out, framesLeft, waited, req, chan, prod, evLeft, admitVars>>

\* what is sent when the stream cannot be started or a relayed item is an
\* error: the error response, then the terminator
RelayErrorSends(e) == <<Response("", "", e), Empty>>

\* router.forward_request_streaming(request).await
RouterOpen(ok) ==
    /\ pc = "router_open"
    /\ calls' = calls + 1
    /\ IF ok
         THEN /\ pc' = "stream_recv"
              /\ chan' = <<>>
              /\ prod' = "running"
              /\ evLeft' = MaxEvents
              /\ log' = log \cup {LogLine("info", "Router mode: forwarding to model server", {})}
              /\ UNCHANGED todo
         ELSE /\ pc' = "send"
              /\ todo' = RelayErrorSends("router error")
              /\ log' = log \cup
                     {LogLine("info", "Router mode: forwarding to model server", {}),
                      LogLine("error", "Failed to start streaming", {"router error"})}
              /\ UNCHANGED <<chan, prod, evLeft>>
    /\ UNCHANGED <<rtVars, fnVars, attVars, mode, hsIn, result, permitHeld, hsReads, hsWrites, transport, sendN, recvN,
                   lastIn, out, framesLeft, waited, req, admitVars>>

\* an Err(e) item of the relay channel
RelayErr(e) == [kind |-> "relay-err", text |-> "", fin |-> "", err |-> e]

\* what the receiver of forward_request_streaming can yield: Ok(chunk) for a
\* chunk the downstream server sent, or Err(e)
RelayItems == {Delta("content"), FinishChunk("stop"), ErrorChunk("stream error"),
               RelayErr("router error")}

\* the relay queues one item
RelayItem(item) ==
    /\ mode = "Router"
    /\ prod = "running"
    /\ evLeft > 0
    /\ Len(chan) < CHANNEL_CAPACITY
    /\ evLeft' = evLeft - 1
    /\ chan' = Push(<<item>>)
    /\ UNCHANGED <<rtVars, fnVars, attVars, mode, hsIn, pc, result, permitHeld, hsReads, hsWrites, transport, sendN,
                   recvN, lastIn, out, framesLeft, waited, req, todo, prod, calls, log,
                   admitVars>>

\* the relay saw the downstream terminator (or gave up) and drops its sender
RelayClose ==
    /\ mode = "Router"
    /\ prod = "running"
    /\ prod' = "closed"
    /\ UNCHANGED <<rtVars, fnVars, attVars, mode, hsIn, pc, result, permitHeld, hsReads, hsWrites, transport, sendN,
                   recvN, lastIn, out, framesLeft, waited, req, todo, chan, evLeft, calls,
                   log, admitVars>>

\* a relay loop without the break of its Err arm: the error response is sent
\* and the loop takes the next item
RouterStreamRecvNoBreak(encOk, sendOk) ==
    /\ mode = "Router"
    /\ pc = "stream_recv"
    /\ chan # <<>>
    /\ LET item == Head(chan)
           body == IF item.kind = "relay-err" THEN Response("", "", item.err) ELSE item
       IN  IF ~encOk
             THEN /\ Finish(Err("encrypt error", {}), {})
                  /\ UNCHANGED <<sendN, out>>
             ELSE /\ sendN' = sendN + 1
                  /\ IF ~sendOk
                       THEN /\ Finish(IoError, {})
                            /\ UNCHANGED out
                       ELSE /\ out' = Append(out, Encrypt(sendN, body))
                            /\ chan' = Tail(chan)
                            /\ UNCHANGED <<pc, result, permitHeld, permits, live, todo,
                                           log>>
    /\ UNCHANGED <<rtVars, fnVars, attVars, mode, hsIn, hsReads, hsWrites, transport, recvN, lastIn, framesLeft, waited,
                   req, prod, evLeft, calls, backlog, dropped, lastAccept>>

\* while let Some(chunk_result) = rx.recv().await: Ok(chunk) is sealed and
\* sent; Err(e) is answered with an error response and ends the loop
RouterStreamRecv(encOk, sendOk) ==
    /\ mode = "Router"
    /\ pc = "stream_recv"
    /\ chan # <<>>
    /\ LET item == Head(chan)
       IN  IF item.kind = "relay-err"
             THEN /\ todo' = RelayErrorSends(item.err)
                  /\ pc' = "send"
                  /\ chan' = <<>>
                  /\ log' = log \cup {LogLine("error", "Streaming error from model server",
                                              {item.err})}
                  /\ UNCHANGED <<sendN, out, result, permitHeld, permits, live>>
             ELSE IF ~encOk
               THEN /\ Finish(Err("encrypt error", {}), {})
                    /\ UNCHANGED <<sendN, out>>
               ELSE /\ sendN' = sendN + 1
                    /\ IF ~sendOk
                         THEN /\ Finish(IoError, {})
                              /\ UNCHANGED out
                         ELSE /\ out' = Append(out, Encrypt(sendN, item))
                              /\ chan' = Tail(chan)
                              /\ UNCHANGED <<pc, result, permitHeld, permits, live, todo,
                                             log>>
    /\ UNCHANGED <<rtVars, fnVars, attVars, mode, hsIn, hsReads, hsWrites, transport, recvN, lastIn, framesLeft, waited,
                   req, prod, evLeft, calls, backlog, dropped, lastAccept>>

\* rx.recv() returns None: the relay is over
RouterStreamEnd ==
    /\ mode = "Router"
    /\ pc = "stream_recv"
    /\ chan = <<>>
    /\ prod = "closed"
    /\ todo' = StreamEndSends
    /\ pc' = "send"
    /\ UNCHANGED <<rtVars, fnVars, attVars, mode, hsIn, result, permitHeld, hsReads, hsWrites, transport, sendN, recvN,
                   lastIn, out, framesLeft, waited, req, chan, prod, evLeft, calls, log,
                   admitVars>>

(***************************************************************************)
(* One client session                                                      *)
(***************************************************************************)
\* the state right after tokio::spawn of the session task: the task holds one
\* permit; main.rs fixes the mode before the server starts
Init ==
    /\ mode \in Modes
    /\ pc = "ws_accept"
    /\ result = Running
    /\ permitHeld = TRUE
    /\ hsIn = NoHsFrame
    /\ hsReads = 0
    /\ hsWrites = 0
    /\ transport = FALSE
    /\ sendN = 0
    /\ recvN = 0
    /\ lastIn = NoFrame
    /\ out = <<>>
    /\ framesLeft = MaxFrames
    /\ waited = 0
    /\ req = NoRequest
    /\ todo = <<>>
    /\ chan = <<>>
    /\ prod = "idle"
    /\ evLeft = 0
    /\ calls = 0
    /\ log = {}
    /\ permits = MAX_CONCURRENT_CONNECTIONS - 1
    /\ live = 1
    /\ backlog = 0
    /\ dropped = 0
    /\ lastAccept = "spawned"
    /\ AttInert
    /\ RtInert
    /\ FnInert

\* what the client (and the network) does to the session
ClientStep ==
    \/ \E ok \in BOOLEAN : WsAccept(ok)
    \/ \E f \in HsFrames : HsRecv(f)
    \/ \E closed \in BOOLEAN : HsReadFail(closed)
    \/ \E closed \in BOOLEAN : RecvEnd(closed)
    \/ RecvClose
    \/ \E p \in PingPayloads, sendOk \in BOOLEAN : RecvPing(p, sendOk)
    \/ \E t \in OtherFrameTypes : RecvOther(t)
    \/ \E ok \in BOOLEAN, pt \in Plaintexts : RecvBinary(ok, pt)

\* what the runtime, the session task, the backend and the router do
ServerStep ==
    \/ \E ok \in BOOLEAN : HsSend(ok)
    \/ IntoTransport
    \/ Tick
    \/ ReadTimeout
    \/ \E encOk \in BOOLEAN, sendOk \in BOOLEAN : SendNext(encOk, sendOk)
    \/ \E ok \in BOOLEAN : BackendCall(ok)
    \/ \E ok \in BOOLEAN : StreamOpen(ok)
    \/ \E ev \in SseEvents : SseEvent(ev)
    \/ \E ok \in BOOLEAN : SseStreamEnd(ok)
    \/ \E encOk \in BOOLEAN, sendOk \in BOOLEAN : StreamRecv(encOk, sendOk)
    \/ StreamEnd
    \/ \E o \in RouterOutcomes : RouterCall(o)
    \/ \E ok \in BOOLEAN : RouterOpen(ok)
    \/ \E item \in RelayItems : RelayItem(item)
    \/ RelayClose
    \/ \E encOk \in BOOLEAN, sendOk \in BOOLEAN : RouterStreamRecv(encOk, sendOk)
    \/ RouterStreamEnd

Next == ClientStep \/ ServerStep

Spec == Init /\ [][Next]_vars

\* the runtime runs a ready task and fires a due timer; the backend answers
\* or its request times out; nothing obliges the client to send
FairSpec == Spec /\ WF_vars(ServerStep)

(***************************************************************************)
(* run_websocket_server: the accept loop and its semaphore                 *)
(***************************************************************************)
\* a semaphore created one permit too large
SemaphoreNewOffByOne == MAX_CONCURRENT_CONNECTIONS + 1

\* Semaphore::new(MAX_CONCURRENT_CONNECTIONS)
SemaphoreNew == MAX_CONCURRENT_CONNECTIONS

\* connection_semaphore.try_acquire_owned() is Ok when a permit is free
TryAcquire(p) == p > 0

\* the server has just bound its listener: no session, every permit free. The
\* sessions are counted here; their steps are those of Spec.
InitAdmit ==
    /\ permits = SemaphoreNew
    /\ live = 0
    /\ backlog = 0
    /\ dropped = 0
    /\ lastAccept = "none"
    /\ mode \in Modes
    /\ pc = "none"
    /\ result = Running
    /\ permitHeld = FALSE
    /\ hsIn = NoHsFrame
    /\ hsReads = 0
    /\ hsWrites = 0
    /\ transport = FALSE
    /\ sendN = 0
    /\ recvN = 0
    /\ lastIn = NoFrame
    /\ out = <<>>
    /\ framesLeft = 0
    /\ waited = 0
    /\ req = NoRequest
    /\ todo = <<>>
    /\ chan = <<>>
    /\ prod = "idle"
    /\ evLeft = 0
    /\ calls = 0
    /\ log = {}
    /\ AttInert
    /\ RtInert
    /\ FnInert

\* a client connects: the connection waits for listener.accept()
Arrive ==
    /\ backlog < MaxBacklog
    /\ backlog' = backlog + 1
    /\ UNCHANGED <<permits, live, dropped, lastAccept, sessVars, attVars, rtVars, fnVars>>

\* Ok((stream, peer_addr)): with a permit the session task is spawned and
\* owns the permit; without one the stream is dropped and the loop continues
Accept ==
    /\ backlog > 0
    /\ backlog' = backlog - 1
    /\ IF TryAcquire(permits)
         THEN /\ permits' = permits - 1
              /\ live' = live + 1
              /\ lastAccept' = "spawned"
              /\ UNCHANGED dropped
         ELSE /\ dropped' = IF dropped < MaxDropped THEN dropped + 1 ELSE dropped
              /\ lastAccept' = "rejected"
              /\ UNCHANGED <<permits, live>>
    /\ UNCHANGED <<sessVars, attVars, rtVars, fnVars>>

\* Err(e) => error!("Accept error"): nothing is accepted
AcceptError ==
    /\ lastAccept' = "error"
    /\ UNCHANGED <<permits, live, backlog, dropped, sessVars, attVars, rtVars, fnVars>>

\* a session task whose end leaves its permit with the semaphore's holders
SessionEndKeepsPermit ==
    /\ live > 0
    /\ live' = live - 1
    /\ UNCHANGED <<permits, backlog, dropped, lastAccept, sessVars, attVars, rtVars, fnVars>>

\* a session task ends, by whatever path handle_connection returns: _permit
\* is dropped with the task
SessionEnd ==
    /\ live > 0
    /\ live' = live - 1
    /\ permits' = permits + 1
    /\ UNCHANGED <<backlog, dropped, lastAccept, sessVars, attVars, rtVars, fnVars>>

NextAdmit == Arrive \/ Accept \/ AcceptError \/ SessionEnd

SpecAdmit == InitAdmit /\ [][NextAdmit]_vars

(***************************************************************************)
(* Bytes, digests and encodings                                            *)
(***************************************************************************)
\* attestation.rs:36, noise.rs:42  [u8; 32]: a key, a SHA-256 digest
DIGEST_LEN == 32
\* attestation.rs:140  let mut report_data = [0u8; 64]
REPORT_DATA_LEN == 64
\* attestation.rs:192  quote[80..144]
REPORT_DATA_OFFSET == 80
\* attestation.rs:29  const SEV_SNP_REPORT_SIZE: usize = 1184
SEV_SNP_REPORT_SIZE == 1184

\* byte arrays are sequences of numbers 0..255; the byte at Rust index i is
\* element i + 1
\* [0u8; n]
Zeros(n) == [i \in 1..n |-> 0]

\* dst[from..from + src.len()].copy_from_slice(src), from counted from 0
CopyFromSlice(dst, from, src) ==
    [i \in 1..Len(dst) |->
        IF i > from /\ i <= from + Len(src) THEN src[i - from] ELSE dst[i]]

\* bytes[from..to], from and to counted from 0
Slice(bytes, from, to) == SubSeq(bytes, from + 1, to)

\* the sum of the bytes of m
RECURSIVE ByteSum(_)
ByteSum(m) == IF m = <<>> THEN 0 ELSE Head(m) + ByteSum(Tail(m))

\* Sha256::digest(m): SHA-256 itself is not computed; a fixed function from
\* byte strings to DIGEST_LEN bytes stands for it, and nothing below uses
\* more of SHA-256 than that it is one
Sha256(m) ==
    [i \in 1..DIGEST_LEN |-> (7 * ByteSum(m) + 13 * Len(m) + 31 * i + 99) % 256]

\* hex::encode(bytes): two lower-case digits for each byte
HexDigits ==
    <<"0", "1", "2", "3", "4", "5", "6", "7", "8", "9", "a", "b", "c", "d",
      "e", "f">>
HexEncode(bytes) ==
    [k \in 1..(2 * Len(bytes)) |->
        LET b == bytes[(k + 1) \div 2]
        IN  HexDigits[(IF k % 2 = 1 THEN b \div 16 ELSE b % 16) + 1]]

\* base64 STANDARD.encode(bytes): four characters for each three bytes, the
\* last group padded with "="
Base64Alphabet ==
    <<"A", "B", "C", "D", "E", "F", "G", "H", "I", "J", "K", "L", "M", "N",
      "O", "P", "Q", "R", "S", "T", "U", "V", "W", "X", "Y", "Z", "a", "b",
      "c", "d", "e", "f", "g", "h", "i", "j", "k", "l", "m", "n", "o", "p",
      "q", "r", "s", "t", "u", "v", "w", "x", "y", "z", "0", "1", "2", "3",
      "4", "5", "6", "7", "8", "9", "+", "/">>
Base64Encode(bytes) ==
    LET n == Len(bytes)
        byte(j) == IF j <= n THEN bytes[j] ELSE 0
    IN  [k \in 1..(4 * ((n + 2) \div 3)) |->
            LET g == (k - 1) \div 4
                p == (k - 1) % 4
                v == byte(3 * g + 1) * 65536 + byte(3 * g + 2) * 256 + byte(3 * g + 3)
                sextet == CASE p = 0 -> v \div 262144
                            [] p = 1 -> (v \div 4096) % 64
                            [] p = 2 -> (v \div 64) % 64
                            [] OTHER -> v % 64
            IN  IF (p = 2 /\ 3 * g + 2 > n) \/ (p = 3 /\ 3 * g + 3 > n)
                  THEN "="
                  ELSE Base64Alphabet[sextet + 1]]

\* base64 STANDARD.decode(chars): the bytes a base64 text stands for
Base64Index(c) == CHOOSE i \in 0..63 : Base64Alphabet[i + 1] = c
Base64Decode(chars) ==
    LET n == Len(chars)
        pad == IF n = 0 THEN 0
               ELSE (IF chars[n] = "=" THEN 1 ELSE 0) + (IF chars[n - 1] = "=" THEN 1 ELSE 0)
        sextet(k) == IF chars[k] = "=" THEN 0 ELSE Base64Index(chars[k])
        v(g) == sextet(4 * g + 1) * 262144 + sextet(4 * g + 2) * 4096
                + sextet(4 * g + 3) * 64 + sextet(4 * g + 4)
    IN  [j \in 1..(3 * (n \div 4) - pad) |->
            LET g == (j - 1) \div 3
                r == (j - 1) % 3
            IN  CASE r = 0 -> v(g) \div 65536
                  [] r = 1 -> (v(g) \div 256) % 256
                  [] OTHER -> v(g) % 256]
\* STANDARD.decode returns Ok: groups of four characters of the alphabet,
\* padding at the end of the last group only
Base64Valid(chars) ==
    LET n == Len(chars)
        alpha == {Base64Alphabet[i] : i \in 1..64}
    IN  /\ n % 4 = 0
        /\ \A k \in 1..n :
              \/ chars[k] \in alpha
              \/ /\ chars[k] = "="
                 /\ k >= n - 1
                 /\ k = n - 1 => chars[n] = "="

\* hex::decode(chars): the bytes a hex text stands for
HexIndex(c) == CHOOSE i \in 0..15 : HexDigits[i + 1] = c
HexDecode(chars) ==
    [j \in 1..(Len(chars) \div 2) |-> 16 * HexIndex(chars[2 * j - 1]) + HexIndex(chars[2 * j])]
\* hex::decode returns Ok: an even number of hex digits
HexValid(chars) ==
    /\ Len(chars) % 2 = 0
    /\ \A k \in 1..Len(chars) : chars[k] \in {HexDigits[i] : i \in 1..16}

\* the strings of generate_mock_sev_snp_quote, as bytes
\* b"onera-mock-fam\x00\x00"
MOCK_FAMILY_ID ==
    <<111, 110, 101, 114, 97, 45, 109, 111, 99, 107, 45, 102, 97, 109, 0,
      0>>
\* b"onera-mock-img\x00\x00"
MOCK_IMAGE_ID ==
    <<111, 110, 101, 114, 97, 45, 109, 111, 99, 107, 45, 105, 109, 103, 0,
      0>>
\* b"onera-enclave-mock-measurement"
MOCK_MEASUREMENT_INPUT ==
    <<111, 110, 101, 114, 97, 45, 101, 110, 99, 108, 97, 118, 101, 45, 109,
      111, 99, 107, 45, 109, 101, 97, 115, 117, 114, 101, 109, 101, 110,
      116>>
\* b"mock-signature"
MOCK_SIGNATURE_INPUT ==
    <<109, 111, 99, 107, 45, 115, 105, 103, 110, 97, 116, 117, 114, 101>>

(***************************************************************************)
(* The key authority (NoiseServer) and the attestation service             *)
(***************************************************************************)
\* HTTP requests that are followed
MaxHttp == 2
\* bytes of the longest nonce tried
MaxNonceLen == 2

\* builder.generate_keypair(): the key pairs it returns here. X25519 is not
\* computed: a pair is a private key with the public key that belongs to it.
KeySeeds == {1, 2}
KeyPairs ==
    {[private |-> [i \in 1..DIGEST_LEN |-> (s + i) % 256],
      public |-> [i \in 1..DIGEST_LEN |-> (100 * s + 3 * i) % 256]] : s \in KeySeeds}

\* an accessor that hands out the private half
PrivateKeyOf(ns) == ns.private_key

\* NoiseServer::public_key
PublicKeyOf(ns) == ns.public_key

\* a hash field left as it was initialized, [0u8; 32]
PublicKeyHashZero(pk) == Zeros(DIGEST_LEN)

\* AttestationService::new: hasher.update(&public_key); hasher.finalize()
PublicKeyHash(pk) == Sha256(pk)

\* AttestationService::new: the service it returns
NewService(pk, azure) ==
    [public_key |-> pk, public_key_hash |-> PublicKeyHash(pk), is_azure |-> azure]

\* a report_data that takes a nonce of no bytes for no nonce
MockReportDataEmptyAsNone(svc, n) ==
    LET rd == CopyFromSlice(Zeros(REPORT_DATA_LEN), 0, svc.public_key_hash)
    IN  IF n.some /\ n.bytes # <<>>
          THEN CopyFromSlice(rd, DIGEST_LEN, Sha256(n.bytes))
          ELSE rd

\* generate_mock_quote: report_data[..32] is the hash of the public key and,
\* if let Some(nonce), report_data[32..] is the hash of the nonce
MockReportData(svc, n) ==
    LET rd == CopyFromSlice(Zeros(REPORT_DATA_LEN), 0, svc.public_key_hash)
    IN  IF n.some
          THEN CopyFromSlice(rd, DIGEST_LEN, Sha256(n.bytes))
          ELSE rd

\* generate_mock_sev_snp_quote: the writes into vec![0u8; SEV_SNP_REPORT_SIZE]
GenerateMockSevSnpQuote(rd) ==
    LET q0 == Zeros(SEV_SNP_REPORT_SIZE)
        q1 == CopyFromSlice(q0, 0, <<2, 0, 0, 0>>)
        q2 == CopyFromSlice(q1, 4, <<0, 0, 0, 0>>)
        q3 == CopyFromSlice(q2, 8, <<48, 0, 0, 0, 1, 0, 0, 0>>)
        q4 == CopyFromSlice(q3, 16, MOCK_FAMILY_ID)
        q5 == CopyFromSlice(q4, 32, MOCK_IMAGE_ID)
        q6 == CopyFromSlice(q5, 48, <<0, 0, 0, 0>>)
        q7 == CopyFromSlice(q6, 52, <<1, 0, 0, 0>>)
        q8 == CopyFromSlice(q7, 56, <<3, 0, 49, 0, 20, 0, 0, 0>>)
        q9 == CopyFromSlice(q8, 64, <<3, 0, 0, 0, 0, 0, 0, 0>>)
        q10 == CopyFromSlice(q9, REPORT_DATA_OFFSET, rd)
        q11 == CopyFromSlice(q10, 144, Sha256(MOCK_MEASUREMENT_INPUT))
    IN  CopyFromSlice(q11, 672, Sha256(MOCK_SIGNATURE_INPUT))

\* generate_mock_quote: the AttestationQuote it returns
GenerateMockQuote(svc, n) ==
    AttestationQuote(Base64Encode(GenerateMockSevSnpQuote(MockReportData(svc, n))),
                     Base64Encode(svc.public_key),
                     HexEncode(svc.public_key_hash),
                     HexEncode(MockReportData(svc, n)),
                     "mock-sev-snp", "")

\* what the request for the IMDS attested document yields: a document with a
\* signature and an encoding, or a failure (no answer, a status that is not
\* 2xx, a body that does not parse)
ImdsDocument ==
    [ok |-> TRUE, signature |-> <<"M", "I", "I", "E">>, encoding |-> "pkcs7", error |-> ""]
ImdsFailure ==
    [ok |-> FALSE, signature |-> <<>>, encoding |-> "", error |-> "IMDS request failed"]
ImdsBadStatus ==
    [ok |-> FALSE, signature |-> <<>>, encoding |-> "", error |-> "IMDS returned status"]
ImdsUnparsable ==
    [ok |-> FALSE, signature |-> <<>>, encoding |-> "",
     error |-> "Failed to parse IMDS response"]
ImdsOutcomes == {ImdsDocument, ImdsFailure, ImdsBadStatus, ImdsUnparsable}

\* get_azure_attestation: Ok(AttestationQuote) of a document; the nonce is
\* not used
GetAzureAttestation(svc, n, imds) ==
    AttestationQuote(imds.signature,
                     Base64Encode(svc.public_key),
                     HexEncode(svc.public_key_hash),
                     HexEncode(svc.public_key_hash),
                     "azure-imds", imds.encoding)

\* generate_quote: if self.is_azure, get_azure_attestation asks IMDS
ImdsAsked(svc) == svc.is_azure

\* a generate_quote that returns what get_azure_attestation made of the
\* reply, whatever the reply
GenerateQuoteNoFallback(svc, n, imds) ==
    IF svc.is_azure
      THEN GetAzureAttestation(svc, n, imds)
      ELSE GenerateMockQuote(svc, n)

\* generate_quote: the IMDS quote on Azure when the document was obtained,
\* the mock quote otherwise
GenerateQuote(svc, n, imds) ==
    IF svc.is_azure /\ imds.ok
      THEN GetAzureAttestation(svc, n, imds)
      ELSE GenerateMockQuote(svc, n)

\* a log line of main or of an HTTP handler, with the text of its argument
SrvLine(level, m, arg) == [level |-> level, msg |-> m, arg |-> arg]

(***************************************************************************)
(* main's start-up, the HTTP routes, the responders                        *)
(***************************************************************************)
\* no session and no accept loop is looked at
SessInert ==
    /\ pc = "none"
    /\ result = Running
    /\ permitHeld = FALSE
    /\ hsIn = NoHsFrame
    /\ hsReads = 0
    /\ hsWrites = 0
    /\ transport = FALSE
    /\ sendN = 0
    /\ recvN = 0
    /\ lastIn = NoFrame
    /\ out = <<>>
    /\ framesLeft = 0
    /\ waited = 0
    /\ req = NoRequest
    /\ todo = <<>>
    /\ chan = <<>>
    /\ prod = "idle"
    /\ evLeft = 0
    /\ calls = 0
    /\ log = {}
    /\ permits = SemaphoreNew
    /\ live = 0
    /\ backlog = 0
    /\ dropped = 0
    /\ lastAccept = "none"

\* String::as_bytes: the UTF-8 encoding of a string, one to three bytes for a
\* code point below 65536
RECURSIVE Utf8Encode(_)
Utf8Encode(chars) ==
    IF chars = <<>> THEN <<>>
    ELSE LET c == Head(chars)
             b == CASE c < 128 -> <<c>>
                    [] c >= 128 /\ c < 2048 -> <<192 + (c \div 64), 128 + (c % 64)>>
                    [] OTHER -> <<224 + (c \div 4096), 128 + ((c \div 64) % 64), 128 + (c % 64)>>
         IN  b \o Utf8Encode(Tail(chars))

\* post_attestation: request.nonce.as_ref().map(|n| n.as_bytes())
NonceAsBytes(n) == IF n.some THEN SomeNonce(Utf8Encode(n.chars)) ELSE NoNonce

\* post_attestation: the quote of generate_quote(nonce_bytes)
PostAttestationQuote(svc, n, imds) == GenerateQuote(svc, NonceAsBytes(n), imds)

\* the code points a nonce string is made of ("a", U+00E9), and the nonces
\* a POST body carries: none, or a string, possibly the empty one
NonceChars == {97, 233}
NonceTexts ==
    {NoNonceText} \cup
    {SomeNonceText(c) : c \in UNION {[1..n -> NonceChars] : n \in 0..MaxNonceLen}}

\* main has fixed the mode and is about to create the NoiseServer
InitHttp ==
    /\ mode \in Modes
    /\ boot = "start"
    /\ noise_server = NoKeys
    /\ attestation = NoService
    /\ responder = <<>>
    /\ httpReq = NoHttpRequest
    /\ httpResp = NoHttpResponse
    /\ imdsReply = NoImdsReply
    /\ imdsCalls = 0
    /\ srvLog = {}
    /\ httpLeft = MaxHttp
    /\ nonce = NoNonce
    /\ report_data = <<>>
    /\ quote = <<>>
    /\ mockQuote = NoQuote
    /\ SessInert
    /\ RtInert
    /\ FnInert

\* NoiseServer::new()? and the info! of the public key: the key pair kp is
\* generated and copied into the server, or main returns the error
NoiseServerNew(ok, kp) ==
    /\ boot = "start"
    /\ IF ok
         THEN /\ noise_server' = [private_key |-> kp.private, public_key |-> kp.public]
              /\ boot' = "keyed"
              /\ srvLog' = srvLog \cup
                     {SrvLine("info", "Noise server initialized with public key",
                              HexEncode(PublicKeyOf(noise_server')))}
         ELSE /\ boot' = "exit"
              /\ UNCHANGED <<noise_server, srvLog>>
    /\ UNCHANGED <<attestation, responder, httpReq, httpResp, imdsReply, imdsCalls,
                   httpLeft, nonce, report_data, quote, mockQuote, sessVars, admitVars, rtVars, fnVars>>

\* AttestationService::new(public_key).await, with the IMDS probe answering
\* (azure) or not; the HTTP server is then started
AttestationServiceNew(azure) ==
    /\ boot = "keyed"
    /\ attestation' = NewService(PublicKeyOf(noise_server), azure)
    /\ boot' = "serving"
    /\ srvLog' = srvLog \cup
           {SrvLine("info", IF azure THEN "Running on Azure - will use IMDS attestation"
                                     ELSE "Not on Azure - will use mock attestation", <<>>),
            SrvLine("info", "Attestation service initialized", <<>>)}
    /\ UNCHANGED <<noise_server, responder, httpReq, httpResp, imdsReply, imdsCalls,
                   httpLeft, nonce, report_data, quote, mockQuote, sessVars, admitVars, rtVars, fnVars>>

\* the lines generate_quote writes: the warning of the fallback
GenerateQuoteLog(svc, imds) ==
    IF svc.is_azure /\ ~imds.ok
      THEN {SrvLine("warn", "Azure attestation failed, falling back to mock", <<imds.error>>)}
      ELSE {}

\* GET /attestation: get_attestation calls generate_quote(None); the request
\* for the IMDS document, when generate_quote makes it, is answered by imds
GetAttestation(imds) ==
    /\ boot = "serving"
    /\ httpLeft > 0
    /\ httpLeft' = httpLeft - 1
    /\ httpReq' = HttpRequest("GET", "/attestation", NoNonceText)
    /\ imdsReply' = IF ImdsAsked(attestation) THEN imds ELSE NoImdsReply
    /\ imdsCalls' = imdsCalls + (IF ImdsAsked(attestation) THEN 1 ELSE 0)
    /\ LET q == GenerateQuote(attestation, NoNonce, imds)
       IN  /\ httpResp' = HttpResponse("/attestation", 200, <<>>, <<>>, q)
           /\ srvLog' = srvLog \cup GenerateQuoteLog(attestation, imds) \cup
                  {SrvLine("info", "Generated attestation quote", <<q.attestation_type>>)}
    /\ UNCHANGED <<boot, noise_server, attestation, responder, nonce, report_data, quote,
                   mockQuote, sessVars, admitVars, rtVars, fnVars>>

\* POST /attestation with the JSON body {nonce?}: the router of main has
\* this path with get(..) only, so axum answers 405 Method Not Allowed with
\* an empty body and calls no handler
PostAttestation(n) ==
    /\ boot = "serving"
    /\ httpLeft > 0
    /\ httpLeft' = httpLeft - 1
    /\ httpReq' = HttpRequest("POST", "/attestation", n)
    /\ httpResp' = HttpResponse("/attestation", 405, <<>>, <<>>, NoQuote)
    /\ imdsReply' = NoImdsReply
    /\ UNCHANGED <<boot, noise_server, attestation, responder, imdsCalls, srvLog, nonce,
                   report_data, quote, mockQuote, sessVars, admitVars, rtVars, fnVars>>

\* GET /health: health_check
HealthCheck ==
    /\ boot = "serving"
    /\ httpLeft > 0
    /\ httpLeft' = httpLeft - 1
    /\ httpReq' = HttpRequest("GET", "/health", NoNonceText)
    /\ httpResp' = HttpResponse("/health", 200, <<"O", "K">>, <<>>, NoQuote)
    /\ imdsReply' = NoImdsReply
    /\ UNCHANGED <<boot, noise_server, attestation, responder, imdsCalls, srvLog, nonce,
                   report_data, quote, mockQuote, sessVars, admitVars, rtVars, fnVars>>

\* GET /models: get_models lists the ids vLLM reports in server mode (the
\* display name made of an id is left out), and nothing when vLLM fails or
\* in router mode
GetModels(ok) ==
    /\ boot = "serving"
    /\ httpLeft > 0
    /\ httpLeft' = httpLeft - 1
    /\ httpReq' = HttpRequest("GET", "/models", NoNonceText)
    /\ httpResp' = HttpResponse("/models", 200, <<>>,
                                IF mode = "Server" /\ ok THEN <<"m1">> ELSE <<>>, NoQuote)
    /\ imdsReply' = NoImdsReply
    /\ srvLog' = srvLog \cup
           (IF mode = "Server" /\ ~ok
              THEN {SrvLine("warn", "Failed to fetch models from vLLM", <<"Failed to list models">>)}
              ELSE {})
    /\ UNCHANGED <<boot, noise_server, attestation, responder, imdsCalls, nonce,
                   report_data, quote, mockQuote, sessVars, admitVars, rtVars, fnVars>>

\* handle_connection: the debug! of the public key and
\* noise_server.create_responder(), which gives the builder the private key
CreateResponder ==
    /\ boot = "serving"
    /\ responder' = noise_server.private_key
    /\ srvLog' = srvLog \cup
           {SrvLine("debug", "Created Noise responder, server pubkey",
                    HexEncode(PublicKeyOf(noise_server)))}
    /\ UNCHANGED <<boot, noise_server, attestation, httpReq, httpResp, imdsReply,
                   imdsCalls, httpLeft, nonce, report_data, quote, mockQuote, sessVars,
                   admitVars, rtVars, fnVars>>

NextHttp ==
    \/ \E ok \in BOOLEAN, kp \in KeyPairs : NoiseServerNew(ok, kp)
    \/ \E azure \in BOOLEAN : AttestationServiceNew(azure)
    \/ \E imds \in ImdsOutcomes : GetAttestation(imds)
    \/ \E n \in NonceTexts : PostAttestation(n)
    \/ HealthCheck
    \/ \E ok \in BOOLEAN : GetModels(ok)
    \/ CreateResponder

SpecHttp == InitHttp /\ [][NextHttp]_vars

(***************************************************************************)
(* generate_mock_quote applied to a service and a nonce                    *)
(***************************************************************************)
\* the bytes a nonce is made of, and the nonces tried: none, or some bytes,
\* possibly no byte at all
NonceBytes == {0, 1, 255}
NonceInputs ==
    {NoNonce} \cup
    {SomeNonce(b) : b \in UNION {[1..n -> NonceBytes] : n \in 0..MaxNonceLen}}

\* a service as AttestationService::new leaves it, and a nonce
InitQuote ==
    /\ mode \in {"Server"}
    /\ boot = "none"
    /\ noise_server = NoKeys
    /\ attestation \in {NewService(kp.public, azure) : kp \in KeyPairs, azure \in BOOLEAN}
    /\ responder = <<>>
    /\ httpReq = NoHttpRequest
    /\ httpResp = NoHttpResponse
    /\ imdsReply = NoImdsReply
    /\ imdsCalls = 0
    /\ srvLog = {}
    /\ httpLeft = 0
    /\ nonce \in NonceInputs
    /\ report_data = <<>>
    /\ quote = <<>>
    /\ mockQuote = NoQuote
    /\ SessInert
    /\ RtInert
    /\ FnInert

\* self.generate_mock_quote(nonce): its locals and what it returns
GenerateMockQuoteCall ==
    /\ mockQuote = NoQuote
    /\ report_data' = MockReportData(attestation, nonce)
    /\ quote' = GenerateMockSevSnpQuote(report_data')
    /\ mockQuote' = GenerateMockQuote(attestation, nonce)
    /\ UNCHANGED <<boot, noise_server, attestation, responder, httpReq, httpResp,
                   imdsReply, imdsCalls, srvLog, httpLeft, nonce, sessVars, admitVars, rtVars, fnVars>>

NextQuote == GenerateMockQuoteCall

SpecQuote == InitQuote /\ [][NextQuote]_vars

(***************************************************************************)
(* The router: configuration, model resolution, public keys                *)
(***************************************************************************)
\* Option<String>: None, or Some(text), a text being a sequence of characters
NoText == [some |-> FALSE, chars |-> <<>>]
SomeText(chars) == [some |-> TRUE, chars |-> chars]

\* ModelServerConfig: id, public_key, models (the endpoints are left out)
ModelServerConfig(id, public_key, models) ==
    [id |-> id, public_key |-> public_key, models |-> models]

\* the static public keys downstream enclaves can have
ServerKeys == {kp.public : kp \in KeyPairs}
KeyA == CHOOSE k \in ServerKeys : k[1] = 103
KeyB == CHOOSE k \in ServerKeys : k # KeyA

\* RouterConfig.servers, as the TOML file or the environment gives them:
\* no server; the single "default" server of from_env; a server with models
\* and a wildcard server with a static key; two servers listing the same
\* model, neither a wildcard, the first with an empty key; two wildcard
\* servers whose keys are hex of 16 bytes and not hex at all
Configs ==
    {<<>>,
     <<ModelServerConfig("default", NoText, <<"*">>)>>,
     <<ModelServerConfig("s1", NoText, <<"m1", "m2">>),
       ModelServerConfig("s2", SomeText(HexEncode(KeyA)), <<"*">>)>>,
     <<ModelServerConfig("s1", SomeText(<<>>), <<"m1", "m2">>),
       ModelServerConfig("s2", NoText, <<"m2">>)>>,
     <<ModelServerConfig("s1", SomeText(HexEncode(SubSeq(KeyA, 1, 16))), <<"m2", "*">>),
       ModelServerConfig("s2", SomeText(<<"z", "z">>), <<"*", "m1">>)>>}

\* the ids of the servers of a configuration
ServerIds(servers) == {servers[i].id : i \in 1..Len(servers)}

\* request.model.as_deref().unwrap_or("default"): the models asked for
ModelIds == {"m1", "m2", "default"}

\* HashMap::new() and HashMap::insert
EmptyMap == [k \in {} |-> ""]
Insert(map, k, v) == [x \in DOMAIN map \cup {k} |-> IF x = k THEN v ELSE map[x]]
\* HashMap::remove
Remove(map, k) == [x \in DOMAIN map \ {k} |-> map[x]]

\* Router::new: for model in &server.models, a model that is not "*" is
\* inserted with the id of the server
RECURSIVE IndexModels(_, _, _)
IndexModels(map, id, models) ==
    IF models = <<>> THEN map
    ELSE IndexModels(IF Head(models) = "*" THEN map ELSE Insert(map, Head(models), id),
                     id, Tail(models))

\* Router::new: for server in &config.servers
RECURSIVE IndexServers(_, _)
IndexServers(map, servers) ==
    IF servers = <<>> THEN map
    ELSE IndexServers(IndexModels(map, Head(servers).id, Head(servers).models),
                      Tail(servers))

\* Option<String> of a server id: None is ""
NoServer == ""

\* a resolution that knows no wildcard: the explicit entry, else the first
\* server
GetServerForModelNoWildcard(servers, map, m) ==
    IF m \in DOMAIN map THEN map[m]
    ELSE IF servers # <<>> THEN servers[1].id ELSE NoServer

\* Router::get_server_for_model: the explicit mapping, else the first server
\* whose models contain "*", else the first server, else None
GetServerForModel(servers, map, m) ==
    IF m \in DOMAIN map THEN map[m]
    ELSE LET wild == {i \in 1..Len(servers) :
                         \E j \in 1..Len(servers[i].models) : servers[i].models[j] = "*"}
         IN  IF wild # {}
               THEN servers[CHOOSE i \in wild : \A j \in wild : i <= j].id
               ELSE IF servers # <<>> THEN servers[1].id ELSE NoServer

\* Router::get_server_config: the first server with that id
GetServerConfig(servers, id) ==
    servers[CHOOSE i \in 1..Len(servers) :
                /\ servers[i].id = id
                /\ \A j \in 1..(i - 1) : servers[j].id # id]

\* get_public_key, the static key: Ok(key) when the configured text is not
\* empty and decodes to 32 bytes ("static"), Err when it is not empty and is
\* not hex ("error"), and the cache is looked at in every other case ("next")
StaticKey(cfg) ==
    IF cfg.public_key.some /\ cfg.public_key.chars # <<>>
      THEN IF ~HexValid(cfg.public_key.chars)
             THEN [way |-> "error", key |-> <<>>]
             ELSE IF Len(HexDecode(cfg.public_key.chars)) = DIGEST_LEN
                    THEN [way |-> "static", key |-> HexDecode(cfg.public_key.chars)]
                    ELSE [way |-> "next", key |-> <<>>]
      ELSE [way |-> "next", key |-> <<>>]

\* what the GET on the attestation endpoint of a server yields: the JSON of
\* an attestation whose public_key is some text, or a failure (timeout, no
\* connection, a status that is not 2xx, a body that does not parse)
AttestationResponse(public_key) == [ok |-> TRUE, public_key |-> public_key, error |-> ""]
FetchFailure(m) == [ok |-> FALSE, public_key |-> <<>>, error |-> m]
FetchOutcomes(key) ==
    {AttestationResponse(Base64Encode(key)),
     AttestationResponse(Base64Encode(SubSeq(key, 1, 16))),
     AttestationResponse(<<"!", "!", "!", "!">>),
     FetchFailure("Attestation fetch timeout"),
     FetchFailure("Attestation endpoint returned"),
     FetchFailure("Failed to parse attestation response")}

\* fetch_public_key, after the response: Ok(key) when public_key is base64
\* of 32 bytes, Err otherwise
FetchedKey(resp) ==
    IF ~resp.ok THEN [ok |-> FALSE, key |-> <<>>, error |-> resp.error]
    ELSE IF ~Base64Valid(resp.public_key)
           THEN [ok |-> FALSE, key |-> <<>>, error |-> "Invalid base64 public key"]
           ELSE IF Len(Base64Decode(resp.public_key)) # DIGEST_LEN
                  THEN [ok |-> FALSE, key |-> <<>>, error |-> "Public key must be 32 bytes"]
                  ELSE [ok |-> TRUE, key |-> Base64Decode(resp.public_key), error |-> ""]

\* results of forward_request
NoRouterResult == [done |-> FALSE, ok |-> FALSE, msg |-> ""]
RouterOk == [done |-> TRUE, ok |-> TRUE, msg |-> ""]
RouterErr(m) == [done |-> TRUE, ok |-> FALSE, msg |-> m]

\* ServerConnection: the transport of a handshake made with the remote key
ServerConnection(key) == [key |-> key]

(***************************************************************************)
(* The router: forward_request and the health-check task                   *)
(***************************************************************************)
\* no session, no accept loop, no HTTP server is looked at
InitRouter ==
    /\ config \in Configs
    /\ model_to_server = IndexServers(EmptyMap, config)
    /\ connections = EmptyMap
    /\ public_key_cache = EmptyMap
    /\ serverKey \in [ServerIds(config) -> {KeyA}]
    /\ rpc = "idle"
    /\ model_id = ""
    /\ server_id = NoServer
    /\ server_public_key = <<>>
    /\ attempts = 0
    /\ keySrc = "none"
    /\ rResult = NoRouterResult
    /\ hpc = "sleep"
    /\ server_ids = {}
    /\ ping_result = "none"
    /\ hcDead = NoServer
    /\ evicted = {}
    /\ lock = "none"
    /\ requests = <<>>
    /\ mode = "Router"
    /\ SessInert
    /\ AttInert
    /\ FnInert

\* forward_request returns res: its locals are gone
Return(res) ==
    /\ rpc' = "idle"
    /\ rResult' = res
    /\ model_id' = ""
    /\ server_id' = NoServer
    /\ server_public_key' = <<>>
    /\ attempts' = 0
    /\ keySrc' = "none"

\* forward_request and the start of ensure_connection: the server of the
\* model; Err when there is none; the exchange follows when connections has
\* the server, the first connect_to_server otherwise
ForwardRequest(m) ==
    /\ rpc = "idle"
    /\ LET s == GetServerForModel(config, model_to_server, m)
       IN  IF s = NoServer
             THEN Return(RouterErr("No server configured for model"))
             ELSE /\ model_id' = m
                  /\ server_id' = s
                  /\ server_public_key' = <<>>
                  /\ keySrc' = "none"
                  /\ rResult' = NoRouterResult
                  /\ IF s \in DOMAIN connections
                       THEN rpc' = "forward" /\ attempts' = 0
                       ELSE rpc' = "get_key" /\ attempts' = 1
    /\ UNCHANGED <<config, model_to_server, connections, public_key_cache, serverKey,
                   hcVars, evicted, sessVars, admitVars, attVars, poolVars, fnVars>>

\* an ensure_connection that invalidates and retries after every Err
ConnectFailedAlwaysRetry(m) ==
    /\ rpc' = "invalidate"
    /\ UNCHANGED <<model_id, server_id, server_public_key, attempts, keySrc, rResult>>

\* connect_to_server returned Err(m): ensure_connection invalidates the key
\* and calls it once more after the first Err, and returns the second Err
ConnectFailed(m) ==
    IF attempts = 1
      THEN /\ rpc' = "invalidate"
           /\ UNCHANGED <<model_id, server_id, server_public_key, attempts, keySrc,
                          rResult>>
      ELSE Return(RouterErr(m))

\* get_public_key up to the fetch: the static key of the configuration, else
\* the key of the cache, else the fetch follows
GetPublicKey ==
    /\ rpc = "get_key"
    /\ LET static == StaticKey(GetServerConfig(config, server_id))
       IN  CASE static.way = "static" ->
                    /\ server_public_key' = static.key
                    /\ keySrc' = "static"
                    /\ rpc' = "connect"
                    /\ UNCHANGED <<model_id, server_id, attempts, rResult>>
             [] static.way = "error" ->
                    ConnectFailed("Invalid hex public key in config")
             [] OTHER ->
                    IF server_id \in DOMAIN public_key_cache
                      THEN /\ server_public_key' = HexDecode(public_key_cache[server_id])
                           /\ keySrc' = "cache"
                           /\ rpc' = "connect"
                           /\ UNCHANGED <<model_id, server_id, attempts, rResult>>
                      ELSE /\ rpc' = "fetch"
                           /\ UNCHANGED <<model_id, server_id, server_public_key,
                                          attempts, keySrc, rResult>>
    /\ UNCHANGED <<config, model_to_server, connections, public_key_cache, serverKey,
                   hcVars, evicted, sessVars, admitVars, attVars, poolVars, fnVars>>

\* fetch_public_key and the end of get_public_key: the key of the attestation
\* is cached in hex and returned, or the Err of the fetch is returned
FetchPublicKey(resp) ==
    /\ rpc = "fetch"
    /\ resp \in FetchOutcomes(serverKey[server_id])
    /\ LET got == FetchedKey(resp)
       IN  IF got.ok
             THEN /\ public_key_cache' = Insert(public_key_cache, server_id, HexEncode(got.key))
                  /\ server_public_key' = got.key
                  /\ keySrc' = "fetch"
                  /\ rpc' = "connect"
                  /\ UNCHANGED <<model_id, server_id, attempts, rResult>>
             ELSE /\ ConnectFailed(got.error)
                  /\ UNCHANGED public_key_cache
    /\ UNCHANGED <<config, model_to_server, connections, serverKey, hcVars, evicted,
                   sessVars, admitVars, attVars, poolVars, fnVars>>

\* connect_to_server after the key: the WebSocket connection and the Noise
\* handshake as initiator; the handshake succeeds when the network does (net)
\* and the remote key is the static key of the server, and the connection
\* is then stored
Connect(net) ==
    /\ rpc = "connect"
    /\ IF net /\ server_public_key = serverKey[server_id]
         THEN /\ connections' = Insert(connections, server_id,
                                       ServerConnection(server_public_key))
              /\ evicted' = evicted \ {server_id}
              /\ rpc' = "forward"
              /\ UNCHANGED <<model_id, server_id, server_public_key, attempts, keySrc,
                             rResult>>
         ELSE /\ ConnectFailed(IF net THEN "Connection closed during handshake"
                                      ELSE "WebSocket connection failed")
              /\ UNCHANGED <<connections, evicted>>
    /\ UNCHANGED <<config, model_to_server, public_key_cache, serverKey, hcVars,
                   sessVars, admitVars, attVars, poolVars, fnVars>>

\* ensure_connection after the first Err: invalidate_public_key, then the
\* second connect_to_server
InvalidateAndRetry ==
    /\ rpc = "invalidate"
    /\ public_key_cache' = Remove(public_key_cache, server_id)
    /\ attempts' = 2
    /\ server_public_key' = <<>>
    /\ keySrc' = "none"
    /\ rpc' = "get_key"
    /\ UNCHANGED <<config, model_to_server, connections, serverKey, model_id, server_id,
                   rResult, hcVars, evicted, sessVars, admitVars, attVars, poolVars, fnVars>>

\* what the exchange with the server can come to
ExchangeOutcomes ==
    {"ok", "send_error", "timeout", "closed", "close_frame", "unexpected", "decrypt_error"}
ExchangeError(o) ==
    CASE o = "send_error" -> "send failed"
      [] o = "timeout" -> "Request timeout"
      [] o = "closed" -> "Connection closed"
      [] o = "close_frame" -> "Server closed connection"
      [] o = "unexpected" -> "Unexpected message type"
      [] OTHER -> "decrypt error"

\* forward_request under connections.write(): Err when the connection is not
\* found; the request is sealed and sent and the response awaited; a Close
\* frame removes the connection, every other failure returns its Err
Forward(o) ==
    /\ rpc = "forward"
    /\ IF server_id \notin DOMAIN connections
         THEN /\ Return(RouterErr("Connection not found"))
              /\ UNCHANGED <<connections, evicted>>
         ELSE /\ Return(IF o = "ok" THEN RouterOk ELSE RouterErr(ExchangeError(o)))
              /\ IF o = "close_frame"
                   THEN /\ connections' = Remove(connections, server_id)
                        /\ evicted' = evicted \cup {server_id}
                   ELSE UNCHANGED <<connections, evicted>>
    /\ UNCHANGED <<config, model_to_server, public_key_cache, serverKey, hcVars,
                   sessVars, admitVars, attVars, poolVars, fnVars>>

\* run_health_checks: interval.tick().await returns
HealthTick ==
    /\ hpc = "sleep"
    /\ hpc' = "tick"
    /\ UNCHANGED <<config, model_to_server, connections, public_key_cache, serverKey,
                   reqVars, server_ids, ping_result, hcDead, evicted, sessVars,
                   admitVars, attVars, poolVars, fnVars>>

\* run_health_checks: the keys of connections are collected; continue when
\* there is none
HealthCollect ==
    /\ hpc = "tick"
    /\ server_ids' = DOMAIN connections
    /\ hpc' = IF server_ids' = {} THEN "sleep" ELSE "ping"
    /\ UNCHANGED <<config, model_to_server, connections, public_key_cache, serverKey,
                   reqVars, ping_result, hcDead, evicted, sessVars, admitVars,
                   attVars, poolVars, fnVars>>

\* a health check that logs a failed ping and keeps the connection
HealthPingKeepsDead(id, ok) ==
    /\ hpc = "ping"
    /\ id \in server_ids
    /\ server_ids' = server_ids \ {id}
    /\ ping_result' = IF id \notin DOMAIN connections THEN "none"
                      ELSE IF ok THEN "ok" ELSE "failed"
    /\ hpc' = IF server_ids' = {} THEN "sleep" ELSE "ping"
    /\ UNCHANGED <<config, model_to_server, connections, public_key_cache, serverKey,
                   reqVars, hcDead, evicted, sessVars, admitVars, attVars, poolVars, fnVars>>

\* run_health_checks, one server of the loop under connections.write(): when
\* its connection is still there it is pinged, and a ping that fails or
\* takes more than PING_TIMEOUT removes and closes the connection
HealthPing(id, ok) ==
    /\ hpc = "ping"
    /\ id \in server_ids
    /\ server_ids' = server_ids \ {id}
    /\ ping_result' = IF id \notin DOMAIN connections THEN "none"
                      ELSE IF ok THEN "ok" ELSE "failed"
    /\ IF id \in DOMAIN connections /\ ~ok
         THEN /\ connections' = Remove(connections, id)
              /\ evicted' = evicted \cup {id}
              /\ hcDead' = id
              /\ hpc' = "invalidate"
         ELSE /\ hpc' = IF server_ids' = {} THEN "sleep" ELSE "ping"
              /\ UNCHANGED <<connections, evicted, hcDead>>
    /\ UNCHANGED <<config, model_to_server, public_key_cache, serverKey, reqVars,
                   sessVars, admitVars, attVars, poolVars, fnVars>>

\* run_health_checks after drop(connections): invalidate_public_key
HealthInvalidate ==
    /\ hpc = "invalidate"
    /\ public_key_cache' = Remove(public_key_cache, hcDead)
    /\ hcDead' = NoServer
    /\ hpc' = IF server_ids = {} THEN "sleep" ELSE "ping"
    /\ UNCHANGED <<config, model_to_server, connections, serverKey, reqVars, server_ids,
                   ping_result, evicted, sessVars, admitVars, attVars, poolVars, fnVars>>

\* a downstream enclave is restarted and has another static key
ServerRestart(id, k) ==
    /\ id \in DOMAIN serverKey
    /\ k # serverKey[id]
    /\ serverKey' = [serverKey EXCEPT ![id] = k]
    /\ UNCHANGED <<config, model_to_server, connections, public_key_cache, reqVars,
                   hcVars, evicted, sessVars, admitVars, attVars, poolVars, fnVars>>

NextRouter ==
    \/ \E m \in ModelIds : ForwardRequest(m)
    \/ GetPublicKey
    \/ \E resp \in UNION {FetchOutcomes(k) : k \in ServerKeys} : FetchPublicKey(resp)
    \/ \E net \in BOOLEAN : Connect(net)
    \/ InvalidateAndRetry
    \/ \E o \in ExchangeOutcomes : Forward(o)
    \/ HealthTick
    \/ HealthCollect
    \/ \E id \in server_ids, ok \in BOOLEAN : HealthPing(id, ok)
    \/ HealthInvalidate
    \/ \E id \in DOMAIN serverKey, k \in ServerKeys : ServerRestart(id, k)

SpecRouter == InitRouter /\ [][NextRouter]_vars

(***************************************************************************)
(* The router: forward_request calls side by side, the lock of the pool    *)
(***************************************************************************)
\* the tasks that call forward_request (the session tasks of two clients)
Tasks == {"r1", "r2"}
NoTask == "none"
\* the owner of a frame whose forward_request call has returned
Stale == "stale"

\* frames a pooled socket may hold in either direction and not yet handled
MaxUnread == 2

\* a WebSocket frame on a pooled connection; of names the forward_request
\* call a request or its response belongs to
PoolFrame(type, of) == [type |-> type, of |-> of]

\* ServerConnection with its socket: sent is what the server has still to
\* read, unread what ws.next() has still to return, both in order
ServerConnectionWs(key, sent, unread) == [key |-> key, sent |-> sent, unread |-> unread]

\* a task that is not inside forward_request; result and response are what
\* its last call returned
NoCall(res, resp) ==
    [pc |-> "idle", server_id |-> NoServer, attempts |-> 0, result |-> res,
     response |-> resp]

\* the frames of a call that has returned belong to no running call
Disown(q, t) ==
    [i \in 1..Len(q) |-> IF q[i].of = t THEN PoolFrame(q[i].type, Stale) ELSE q[i]]
Forget(conns, t) ==
    [s \in DOMAIN conns |->
        ServerConnectionWs(conns[s].key, Disown(conns[s].sent, t),
                           Disown(conns[s].unread, t))]

\* frames held by the sockets of the pool, both directions
RECURSIVE Held(_)
Held(conns) ==
    IF DOMAIN conns = {} THEN 0
    ELSE LET s == CHOOSE x \in DOMAIN conns : TRUE
         IN  Len(conns[s].sent) + Len(conns[s].unread) + Held(Remove(conns, s))

\* two servers, the second a wildcard with a static key
PoolConfig ==
    CHOOSE c \in Configs : Len(c) = 2 /\ StaticKey(c[2]).way = "static"

InitPool ==
    /\ config = PoolConfig
    /\ model_to_server = IndexServers(EmptyMap, config)
    /\ connections = EmptyMap
    /\ lock = NoTask
    /\ requests = [t \in Tasks |-> NoCall(NoRouterResult, NoTask)]
    /\ public_key_cache = EmptyMap
    /\ serverKey = [s \in ServerIds(config) |-> KeyA]
    /\ rpc = "none"
    /\ model_id = ""
    /\ server_id = NoServer
    /\ server_public_key = <<>>
    /\ attempts = 0
    /\ keySrc = "none"
    /\ rResult = NoRouterResult
    /\ hpc = "none"
    /\ server_ids = {}
    /\ ping_result = "none"
    /\ hcDead = NoServer
    /\ evicted = {}
    /\ mode = "Router"
    /\ SessInert
    /\ AttInert
    /\ FnInert

\* forward_request of task t returns res, resp being the call whose response
\* it hands back, and leaves the pool as conns
PoolReturn(t, res, resp, conns) ==
    /\ requests' = [requests EXCEPT ![t] = NoCall(res, resp)]
    /\ connections' = Forget(conns, t)

\* forward_request is called by task t for model m: the server of the model
CallForwardRequest(t, m) ==
    /\ requests[t].pc = "idle"
    /\ LET s == GetServerForModel(config, model_to_server, m)
       IN  IF s = NoServer
             THEN requests' = [requests EXCEPT
                                 ![t] = NoCall(RouterErr("No server configured for model"),
                                               NoTask)]
             ELSE requests' = [requests EXCEPT
                                 ![t] = [pc |-> "ensure", server_id |-> s, attempts |-> 0,
                                         result |-> NoRouterResult, response |-> NoTask]]
    /\ UNCHANGED <<config, model_to_server, connections, lock, public_key_cache, serverKey,
                   reqVars, hcVars, evicted, sessVars, admitVars, attVars, fnVars>>

\* ensure_connection under connections.read(), which waits for a writer:
\* with an entry the exchange follows, without one connect_to_server
EnsureConnection(t) ==
    /\ requests[t].pc = "ensure"
    /\ lock = NoTask
    /\ requests' = [requests EXCEPT
                      ![t] = IF @.server_id \in DOMAIN connections
                               THEN [@ EXCEPT !.pc = "forward"]
                               ELSE [@ EXCEPT !.pc = "connect", !.attempts = 1]]
    /\ UNCHANGED <<config, model_to_server, connections, lock, public_key_cache, serverKey,
                   reqVars, hcVars, evicted, sessVars, admitVars, attVars, fnVars>>

\* connect_to_server up to the handshake, no lock held: it succeeds (ok) and
\* the connection is to be stored, or it fails and ensure_connection calls
\* it once more, or returns the second Err
ConnectToServer(t, ok) ==
    /\ requests[t].pc = "connect"
    /\ IF ok
         THEN /\ requests' = [requests EXCEPT ![t].pc = "store"]
              /\ UNCHANGED <<connections, lock>>
         ELSE IF requests[t].attempts = 1
                THEN /\ requests' = [requests EXCEPT ![t].attempts = 2]
                     /\ UNCHANGED <<connections, lock>>
                ELSE /\ PoolReturn(t, RouterErr("WebSocket connection failed"), NoTask,
                                     connections)
                     /\ UNCHANGED lock
    /\ UNCHANGED <<config, model_to_server, public_key_cache, serverKey, reqVars, hcVars,
                   evicted, sessVars, admitVars, attVars, fnVars>>

\* a connect_to_server that inserts without waiting for connections.write()
StoreConnectionUnlocked(t) ==
    /\ requests[t].pc = "store"
    /\ connections' = Insert(connections, requests[t].server_id,
                             ServerConnectionWs(KeyA, <<>>, <<>>))
    /\ requests' = [requests EXCEPT ![t].pc = "forward"]
    /\ UNCHANGED <<config, model_to_server, lock, public_key_cache, serverKey, reqVars,
                   hcVars, evicted, sessVars, admitVars, attVars, fnVars>>

\* connect_to_server, its end: connections.write() and insert, which
\* replaces the connection the map may hold for the server
StoreConnection(t) ==
    /\ requests[t].pc = "store"
    /\ lock = NoTask
    /\ connections' = Insert(connections, requests[t].server_id,
                             ServerConnectionWs(KeyA, <<>>, <<>>))
    /\ requests' = [requests EXCEPT ![t].pc = "forward"]
    /\ UNCHANGED <<config, model_to_server, lock, public_key_cache, serverKey, reqVars,
                   hcVars, evicted, sessVars, admitVars, attVars, fnVars>>

\* forward_request takes connections.write(): Err when the server has no
\* connection; else the request is sealed and sent (ok) and the guard is
\* kept for the wait, or the send fails and its Err is returned
SendRequest(t, ok) ==
    /\ requests[t].pc = "forward"
    /\ lock = NoTask
    /\ LET s == requests[t].server_id
       IN  IF s \notin DOMAIN connections
             THEN /\ PoolReturn(t, RouterErr("Connection not found"), NoTask, connections)
                  /\ UNCHANGED lock
             ELSE IF ~ok
                    THEN /\ PoolReturn(t, RouterErr("send failed"), NoTask, connections)
                         /\ UNCHANGED lock
                    ELSE /\ Held(connections) < MaxUnread
                         /\ connections' =
                              [connections EXCEPT
                                 ![s].sent = Append(@, PoolFrame("request", t))]
                         /\ lock' = t
                         /\ requests' = [requests EXCEPT ![t].pc = "await"]
    /\ UNCHANGED <<config, model_to_server, public_key_cache, serverKey, reqVars, hcVars,
                   evicted, sessVars, admitVars, attVars, fnVars>>

\* what timeout(REQUEST_TIMEOUT, conn.ws.next()) comes to
ReceiveOutcomes == {"frame", "timeout", "closed"}

\* forward_request after the send, the guard still held: the next frame of
\* the socket is taken as the response, a Binary frame is decrypted and
\* returned, a Close frame removes the connection, any other frame is an
\* Err; so are the timeout and the end of the stream; the guard is dropped
ReceiveResponse(t, o) ==
    /\ requests[t].pc = "await"
    /\ lock = t
    /\ lock' = NoTask
    /\ LET s == requests[t].server_id
           unread == connections[s].unread
           rest == [connections EXCEPT ![s].unread = Tail(@)]
       IN  CASE o = "frame" ->
                  /\ unread # <<>>
                  /\ CASE Head(unread).type = "binary" ->
                            PoolReturn(t, RouterOk, Head(unread).of, rest)
                       [] Head(unread).type = "close" ->
                            PoolReturn(t, RouterErr("Server closed connection"), NoTask,
                                       Remove(connections, s))
                       [] OTHER ->
                            PoolReturn(t, RouterErr("Unexpected message type"), NoTask, rest)
             [] o = "timeout" ->
                  /\ unread = <<>>
                  /\ PoolReturn(t, RouterErr("Request timeout"), NoTask, connections)
             [] OTHER ->
                  /\ unread = <<>>
                  /\ PoolReturn(t, RouterErr("Connection closed"), NoTask, connections)
    /\ UNCHANGED <<config, model_to_server, public_key_cache, serverKey, reqVars, hcVars,
                   evicted, sessVars, admitVars, attVars, fnVars>>

\* the downstream enclave handles the next frame it was sent: a request is
\* answered with its response, a ping with a pong
ServerAnswer(s) ==
    /\ s \in DOMAIN connections
    /\ connections[s].sent # <<>>
    /\ LET h == Head(connections[s].sent)
       IN  connections' =
             [connections EXCEPT
                ![s].sent = Tail(@),
                ![s].unread = Append(@, IF h.type = "request"
                                          THEN PoolFrame("binary", h.of)
                                          ELSE PoolFrame("pong", NoTask))]
    /\ UNCHANGED <<config, model_to_server, lock, requests, public_key_cache, serverKey,
                   reqVars, hcVars, evicted, sessVars, admitVars, attVars, fnVars>>

\* the downstream enclave ends the session and closes the socket
ServerClose(s) ==
    /\ s \in DOMAIN connections
    /\ Held(connections) - Len(connections[s].sent) < MaxUnread
    /\ connections' =
         [connections EXCEPT
            ![s].sent = <<>>,
            ![s].unread = Append(@, PoolFrame("close", NoTask))]
    /\ UNCHANGED <<config, model_to_server, lock, requests, public_key_cache, serverKey,
                   reqVars, hcVars, evicted, sessVars, admitVars, attVars, fnVars>>

\* a health check that pings without waiting for connections.write()
PingConnectionUnlocked(id, ok) ==
    /\ id \in DOMAIN connections
    /\ IF ok
         THEN /\ Held(connections) < MaxUnread
              /\ connections' =
                   [connections EXCEPT ![id].sent = Append(@, PoolFrame("ping", NoTask))]
         ELSE connections' = Remove(connections, id)
    /\ UNCHANGED <<config, model_to_server, lock, requests, public_key_cache, serverKey,
                   reqVars, hcVars, evicted, sessVars, admitVars, attVars, fnVars>>

\* run_health_checks, one server of a tick: connections.write(), the ping
\* sent on the connection the map holds, and the connection removed when
\* the ping fails or takes more than PING_TIMEOUT
PingConnection(id, ok) ==
    /\ lock = NoTask
    /\ id \in DOMAIN connections
    /\ IF ok
         THEN /\ Held(connections) < MaxUnread
              /\ connections' =
                   [connections EXCEPT ![id].sent = Append(@, PoolFrame("ping", NoTask))]
         ELSE connections' = Remove(connections, id)
    /\ UNCHANGED <<config, model_to_server, lock, requests, public_key_cache, serverKey,
                   reqVars, hcVars, evicted, sessVars, admitVars, attVars, fnVars>>

NextPool ==
    \/ \E t \in Tasks, m \in ModelIds : CallForwardRequest(t, m)
    \/ \E t \in Tasks : EnsureConnection(t)
    \/ \E t \in Tasks, ok \in BOOLEAN : ConnectToServer(t, ok)
    \/ \E t \in Tasks : StoreConnection(t)
    \/ \E t \in Tasks, ok \in BOOLEAN : SendRequest(t, ok)
    \/ \E t \in Tasks, o \in ReceiveOutcomes : ReceiveResponse(t, o)
    \/ \E s \in ServerIds(config) : ServerAnswer(s)
    \/ \E s \in ServerIds(config) : ServerClose(s)
    \/ \E id \in ServerIds(config), ok \in BOOLEAN : PingConnection(id, ok)

SpecPool == InitPool /\ [][NextPool]_vars

(***************************************************************************)
(* ModelServerConfig::get_attestation_endpoint                             *)
(***************************************************************************)
\* ModelServerConfig, its two endpoints: ws_endpoint is a text,
\* attestation_endpoint an Option<String>
EndpointConfig(ws_endpoint, attestation_endpoint) ==
    [ws_endpoint |-> ws_endpoint, attestation_endpoint |-> attestation_endpoint]

\* str::replace(from, to): every match of from, found from left to right
\* and not overlapping, is replaced by to
RECURSIVE Replace(_, _, _)
Replace(s, from, to) ==
    IF Len(s) < Len(from) THEN s
    ELSE IF SubSeq(s, 1, Len(from)) = from
           THEN to \o Replace(SubSeq(s, Len(from) + 1, Len(s)), from, to)
           ELSE <<Head(s)>> \o Replace(Tail(s), from, to)

\* str::contains(pat)
Contains(s, pat) ==
    \E i \in 1..(Len(s) - Len(pat) + 1) : SubSeq(s, i, i + Len(pat) - 1) = pat

\* str::trim_end_matches(c)
RECURSIVE TrimEndMatches(_, _)
TrimEndMatches(s, c) ==
    IF s # <<>> /\ s[Len(s)] = c THEN TrimEndMatches(SubSeq(s, 1, Len(s) - 1), c) ELSE s

\* a derivation that leaves the port as it is
GetAttestationEndpointKeepsPort(cfg) ==
    IF cfg.attestation_endpoint.some
      THEN cfg.attestation_endpoint.chars
      ELSE LET http == Replace(Replace(cfg.ws_endpoint, <<"w", "s", ":", "/", "/">>, <<"h", "t", "t", "p", ":", "/", "/">>),
                               <<"w", "s", "s", ":", "/", "/">>, <<"h", "t", "t", "p", "s", ":", "/", "/">>)
           IN  TrimEndMatches(http, "/") \o 
                 <<"/", "a", "t", "t", "e", "s", "t", "a", "t", "i", "o", "n">>

\* get_attestation_endpoint: the configured endpoint, else ws_endpoint with
\* "ws://" replaced by "http://", "wss://" by "https://", ":8081" by ":8080",
\* the "/" at its end trimmed and "/attestation" appended
GetAttestationEndpoint(cfg) ==
    IF cfg.attestation_endpoint.some
      THEN cfg.attestation_endpoint.chars
      ELSE LET ws == cfg.ws_endpoint
               http == Replace(Replace(ws, <<"w", "s", ":", "/", "/">>, <<"h", "t", "t", "p", ":", "/", "/">>),
                               <<"w", "s", "s", ":", "/", "/">>, <<"h", "t", "t", "p", "s", ":", "/", "/">>)
               port == IF Contains(http, <<":", "8", "0", "8", "1">>)
                         THEN Replace(http, <<":", "8", "0", "8", "1">>, <<":", "8", "0", "8", "0">>)
                         ELSE http
           IN  TrimEndMatches(port, "/") \o 
                 <<"/", "a", "t", "t", "e", "s", "t", "a", "t", "i", "o", "n">>

\* the parts WebSocket endpoints are made of: scheme, host, port, path
EndpointSchemes ==
    {<<"w", "s", ":", "/", "/">>,
     <<"w", "s", "s", ":", "/", "/">>,
     <<"h", "t", "t", "p", ":", "/", "/">>}
EndpointHosts ==
    {<<"h">>,
     <<"1", "0", ".", "0", ".", "0", ".", "1">>,
     <<"g", "p", "u", "1">>}
EndpointPorts ==
    {<<>>,
     <<":", "8", "0", "8", "1">>,
     <<":", "8", "0", "8", "0">>,
     <<":", "9", "0", "0", "0">>,
     <<":", "1", "8", "0", "8", "1">>}
EndpointPaths ==
    {<<>>,
     <<"/">>,
     <<"/", "v", "1">>,
     <<"/", "a", "/", "b">>}
\* attestation_endpoint: None, Some(""), Some("http://custom:9000/attest")
ExplicitEndpoints ==
    {NoText, SomeText(<<>>), SomeText(
        <<"h", "t", "t", "p", ":", "/", "/", "c", "u", "s", "t", "o", "m", ":", "9", "0", "0", "0", "/", "a", "t", "t", "e", "s", "t">>)}

\* a ModelServerConfig as the TOML file gives it; nothing else is looked at
InitEndpoint ==
    /\ server_config \in
         {EndpointConfig(sc \o h \o p \o t, a) :
            sc \in EndpointSchemes, h \in EndpointHosts, p \in EndpointPorts,
            t \in EndpointPaths, a \in ExplicitEndpoints}
    /\ attestation_url = NoText
    /\ sse_stream = <<>>
    /\ buffer = <<>>
    /\ sse_out = <<>>
    /\ sse_pc = "none"
    /\ mode \in {"Router"}
    /\ SessInert
    /\ AttInert
    /\ RtInert

\* server_config.get_attestation_endpoint(), as fetch_public_key calls it
GetAttestationEndpointCall ==
    /\ ~attestation_url.some
    /\ attestation_url' = SomeText(GetAttestationEndpoint(server_config))
    /\ UNCHANGED <<server_config, sse_stream, buffer, sse_out, sse_pc, sessVars,
                   admitVars, attVars, rtVars>>

NextEndpoint == GetAttestationEndpointCall

SpecEndpoint == InitEndpoint /\ [][NextEndpoint]_vars

(***************************************************************************)
(* InferenceClient::chat_completion_stream: the task that reads the SSE    *)
(* body of the backend, byte by byte                                       *)
(***************************************************************************)
\* the events of a response body, and the bytes of one read of it that is
\* not the rest of the body
MaxSseEvents == 2
MaxRead == 2

\* char::REPLACEMENT_CHARACTER, what from_utf8_lossy puts for bytes that are
\* not UTF-8
REPLACEMENT_CHARACTER == 65533

\* StreamChunk, with its texts as sequences of code points
StreamChunkDelta(text) == [type |-> "text-delta", text |-> text]
StreamChunkFinish(finish_reason) == [type |-> "finish", finish_reason |-> finish_reason]
StreamChunkError(message) == [type |-> "error", message |-> message]

\* "stop"
STOP == <<115, 116, 111, 112>>
\* e.to_string() of the reqwest error the stream yielded
STREAM_ERROR == <<115, 116, 114, 101, 97, 109, 32, 101, 114, 114, 111, 114>>

\* the number of continuation bytes the lead byte b asks for; 0 when b is no
\* lead byte of a sequence of two to four bytes
Utf8Width(b) ==
    IF b \in 194..223 THEN 1
    ELSE IF b \in 224..239 THEN 2
    ELSE IF b \in 240..244 THEN 3
    ELSE 0

\* how many of the first n bytes of s are continuation bytes, from the front
RECURSIVE ContinuationRun(_, _)
ContinuationRun(s, n) ==
    IF n = 0 \/ s = <<>> \/ Head(s) \notin 128..191 THEN 0
    ELSE 1 + ContinuationRun(Tail(s), n - 1)

\* the code point of a lead byte's payload followed by continuation bytes
RECURSIVE CodePoint(_, _)
CodePoint(acc, s) ==
    IF s = <<>> THEN acc ELSE CodePoint(acc * 64 + (Head(s) - 128), Tail(s))

\* a text or a run of bytes: code points, or bytes, in a row
Text == Seq(Nat)

\* String::from_utf8_lossy(&bytes): an ASCII byte gives itself, each complete
\* sequence gives its code point; a byte that starts no sequence, and a
\* sequence cut short by another byte or by the end of the slice, gives one
\* U+FFFD. (The second-byte ranges that exclude overlong forms and surrogates
\* are not told apart.)
FromUtf8Lossy[bytes \in Text] ==
    LET high == {i \in 1..Len(bytes) : bytes[i] >= 128}
    IN  IF high = {} THEN bytes
        ELSE LET at == CHOOSE i \in high : \A j \in high : i <= j
                 b == bytes[at]
                 rest == SubSeq(bytes, at + 1, Len(bytes))
                 need == Utf8Width(b)
                 got == ContinuationRun(rest, need)
                 lead == CASE need = 1 -> b - 192
                           [] need = 2 -> b - 224
                           [] need = 3 -> b - 240
                           [] OTHER -> 0
             IN  SubSeq(bytes, 1, at - 1)
                   \o (IF need > 0 /\ got = need
                         THEN <<CodePoint(lead, SubSeq(rest, 1, need))>>
                                \o FromUtf8Lossy[SubSeq(rest, need + 1, Len(rest))]
                         ELSE <<REPLACEMENT_CHARACTER>>
                                \o FromUtf8Lossy[SubSeq(rest, got + 1, Len(rest))])

\* str::starts_with, and the rest after the first n characters
StartsWith(s, p) == Len(s) >= Len(p) /\ SubSeq(s, 1, Len(p)) = p
Drop(s, n) == SubSeq(s, n + 1, Len(s))

\* buffer.find("\n\n"): the index of the first blank line, 0 for None
FindBlankLine(s) ==
    LET hits == {i \in 1..(Len(s) - 1) : s[i] = 10 /\ s[i + 1] = 10}
    IN  IF hits = {} THEN 0 ELSE CHOOSE i \in hits : \A j \in hits : i <= j

\* str::lines: the text split at "\n", a "\r" before the "\n" dropped, no
\* empty line for a "\n" at the end
StrLines[s \in Text] ==
    IF s = <<>> THEN <<>>
    ELSE LET hits == {i \in 1..Len(s) : s[i] = 10}
         IN  IF hits = {} THEN <<s>>
             ELSE LET nl == CHOOSE i \in hits : \A j \in hits : i <= j
                      line == SubSeq(s, 1, nl - 1)
                  IN  <<IF line # <<>> /\ line[Len(line)] = 13
                          THEN SubSeq(line, 1, Len(line) - 1) ELSE line>>
                        \o StrLines[Drop(s, nl)]

\* line.strip_prefix("data: ")
DATA_PREFIX == <<100, 97, 116, 97, 58, 32>>
StripPrefix(line, p) == IF StartsWith(line, p) THEN SomeText(Drop(line, Len(p))) ELSE NoText

\* "[DONE]"
DONE == <<91, 68, 79, 78, 69, 93>>

\* the JSON text of a VllmStreamChunk, in the pieces vLLM writes it:
\*   {"choices":[{"delta":  DELTA  ,"finish_reason":  REASON  }]}
\* DELTA is {} or {"content": followed by null or a string and }, REASON is
\* null or a string; and {"choices":[]} for a chunk without a choice
JSON_CHOICES == <<123, 34, 99, 104, 111, 105, 99, 101, 115, 34, 58, 91, 123, 34, 100, 101, 108, 116, 97, 34, 58>>
JSON_NO_CHOICE == <<123, 34, 99, 104, 111, 105, 99, 101, 115, 34, 58, 91, 93, 125>>
JSON_NO_CONTENT == <<123, 125>>
JSON_CONTENT == <<123, 34, 99, 111, 110, 116, 101, 110, 116, 34, 58>>
JSON_FINISH_REASON == <<44, 34, 102, 105, 110, 105, 115, 104, 95, 114, 101, 97, 115, 111, 110, 34, 58>>
JSON_END == <<125, 93, 125>>
JSON_NULL == <<110, 117, 108, 108>>

\* the result of a parse that failed
JsonErr == [ok |-> FALSE, value |-> NoText, rest |-> <<>>]

\* Option<String> at the front of s: null, or a string between quotes (the
\* strings here hold no escape and no control character)
JsonOptionString[s \in Text] ==
    LET quotes == {i \in 2..Len(s) : s[i] = 34}
        e == CHOOSE i \in quotes : \A j \in quotes : i <= j
    IN  IF StartsWith(s, JSON_NULL)
          THEN [ok |-> TRUE, value |-> NoText, rest |-> Drop(s, Len(JSON_NULL))]
          ELSE IF s # <<>> /\ s[1] = 34 /\ quotes # {}
                 THEN IF \E i \in 2..(e - 1) : s[i] = 92 \/ s[i] < 32
                        THEN JsonErr
                        ELSE [ok |-> TRUE, value |-> SomeText(SubSeq(s, 2, e - 1)),
                              rest |-> Drop(s, e)]
                 ELSE JsonErr

\* VllmStreamDelta at the front of s
JsonDelta[s \in Text] ==
    IF StartsWith(s, JSON_NO_CONTENT)
      THEN [ok |-> TRUE, value |-> NoText, rest |-> Drop(s, Len(JSON_NO_CONTENT))]
      ELSE IF StartsWith(s, JSON_CONTENT)
             THEN LET c == JsonOptionString[Drop(s, Len(JSON_CONTENT))]
                  IN  IF c.ok /\ StartsWith(c.rest, <<125>>)
                        THEN [ok |-> TRUE, value |-> c.value, rest |-> Drop(c.rest, 1)]
                        ELSE JsonErr
             ELSE JsonErr

\* serde_json::from_str::<VllmStreamChunk>(data): Ok with the choices, or Err
VllmStreamChunk[data \in Text] ==
    IF data = JSON_NO_CHOICE THEN [ok |-> TRUE, choices |-> <<>>]
    ELSE IF ~StartsWith(data, JSON_CHOICES) THEN [ok |-> FALSE, choices |-> <<>>]
    ELSE LET d == JsonDelta[Drop(data, Len(JSON_CHOICES))]
             f == IF d.ok /\ StartsWith(d.rest, JSON_FINISH_REASON)
                    THEN JsonOptionString[Drop(d.rest, Len(JSON_FINISH_REASON))]
                    ELSE JsonErr
         IN  IF d.ok /\ f.ok /\ f.rest = JSON_END
               THEN [ok |-> TRUE,
                     choices |-> <<[delta |-> [content |-> d.value],
                                    finish_reason |-> f.value]>>]
               ELSE [ok |-> FALSE, choices |-> <<>>]

\* what the task does with one line of an event: the chunks it sends and
\* whether it returns after them
LineChunks[line \in Text] ==
    LET data == StripPrefix(line, DATA_PREFIX)
        chunk == VllmStreamChunk[data.chars]
    IN  IF ~data.some THEN [chunks |-> <<>>, returned |-> FALSE]
        ELSE IF data.chars = DONE THEN [chunks |-> <<StreamChunkFinish(STOP)>>, returned |-> TRUE]
        ELSE IF ~chunk.ok \/ chunk.choices = <<>> THEN [chunks |-> <<>>, returned |-> FALSE]
        ELSE LET choice == Head(chunk.choices)
                 content == choice.delta.content
                 delta == IF content.some /\ content.chars # <<>>
                            THEN <<StreamChunkDelta(content.chars)>> ELSE <<>>
             IN  IF choice.finish_reason.some
                   THEN [chunks |-> delta \o <<StreamChunkFinish(choice.finish_reason.chars)>>,
                         returned |-> TRUE]
                   ELSE [chunks |-> delta, returned |-> FALSE]

\* the chunks sent so far, put before what the rest of a loop gives
After(chunks, r) == [r EXCEPT !.chunks = chunks \o @]

\* for line in event.lines(): up to the line the task returns at
EventChunks[lines \in Seq(Text)] ==
    IF lines = <<>> THEN [chunks |-> <<>>, returned |-> FALSE]
    ELSE LET h == LineChunks[Head(lines)]
         IN  IF h.returned THEN h ELSE After(h.chunks, EventChunks[Tail(lines)])

\* one round of while let Some(pos) = buffer.find("\n\n"), pos the index
\* found: the event before pos is taken out of the buffer and its lines are
\* handled
TakeEvent(buf, pos) ==
    [buffer |-> Drop(buf, pos + 1),
     event |-> EventChunks[StrLines[SubSeq(buf, 1, pos - 1)]]]

\* a task that ends with the stream and sends nothing then
StreamEndedSilent == <<>>

\* the stream ended without explicit finish: Finish "stop" is sent
StreamEnded == <<StreamChunkFinish(STOP)>>

\* the response body of the backend: the bytes and how many of them were read
SseBody(bytes) == [bytes |-> bytes, read |-> 0]

\* the SSE events a body is made of, as bytes:
\*   a delta with content "a", with content U+00E9 (two bytes), with content ""
\*   a choice without content and with finish_reason "length"
\*   [DONE]
\*   data that is no VllmStreamChunk
SseDataEvent(data) == DATA_PREFIX \o data \o <<10, 10>>
SseDeltaEvent(content) ==
    SseDataEvent(JSON_CHOICES \o JSON_CONTENT \o <<34>> \o content \o <<34, 125>>
                   \o JSON_FINISH_REASON \o JSON_NULL \o JSON_END)
SseInputEvents ==
    {SseDeltaEvent(<<97>>),
     SseDeltaEvent(<<195, 169>>),
     SseDeltaEvent(<<>>),
     SseDataEvent(JSON_CHOICES \o JSON_NO_CONTENT \o JSON_FINISH_REASON
                    \o <<34, 108, 101, 110, 103, 116, 104, 34>> \o JSON_END),
     SseDataEvent(DONE),
     SseDataEvent(<<123, 125>>)}

\* the bodies of at most MaxSseEvents events
RECURSIVE SseBodies(_)
SseBodies(n) ==
    IF n = 0 THEN {<<>>}
    ELSE LET shorter == SseBodies(n - 1)
         IN  shorter \cup {b \o e : b \in shorter, e \in SseInputEvents}

\* the backend accepted the request: the task has been spawned with an empty
\* buffer and nothing has been sent on the channel
InitSse ==
    /\ sse_stream \in {SseBody(b) : b \in SseBodies(MaxSseEvents)}
    /\ buffer = <<>>
    /\ sse_out = <<>>
    /\ sse_pc = "reading"
    /\ server_config = <<>>
    /\ attestation_url = <<>>
    /\ mode \in {"Server"}
    /\ SessInert
    /\ AttInert
    /\ RtInert

\* stream.next().await gives Ok(bytes): k more bytes of the body, at most
\* MaxRead of them or all that is left, are decoded and pushed to the buffer
StreamNextBytes(k) ==
    /\ sse_pc = "reading"
    /\ k >= 1
    /\ sse_stream.read + k <= Len(sse_stream.bytes)
    /\ sse_stream' = [sse_stream EXCEPT !.read = @ + k]
    /\ buffer' = buffer \o FromUtf8Lossy[SubSeq(sse_stream.bytes, sse_stream.read + 1,
                                                sse_stream.read + k)]
    /\ sse_pc' = "events"
    /\ UNCHANGED <<sse_out, server_config, attestation_url, sessVars, admitVars, attVars,
                   rtVars>>

\* while let Some(pos) = buffer.find("\n\n"): the next complete event is
\* handled and its chunks are sent (tx.send(..).await), after which the task
\* returns or looks for another event; with no complete event in the buffer
\* the task reads on
ProcessEvent ==
    /\ sse_pc = "events"
    /\ IF FindBlankLine(buffer) = 0
         THEN /\ sse_pc' = "reading"
              /\ UNCHANGED <<buffer, sse_out>>
         ELSE /\ buffer' = TakeEvent(buffer, FindBlankLine(buffer)).buffer
              /\ sse_out' = sse_out \o TakeEvent(buffer, FindBlankLine(buffer)).event.chunks
              /\ sse_pc' = IF TakeEvent(buffer, FindBlankLine(buffer)).event.returned
                             THEN "returned" ELSE "events"
    /\ UNCHANGED <<sse_stream, server_config, attestation_url, sessVars, admitVars, attVars,
                   rtVars>>

\* stream.next().await gives Err(e): the error chunk is sent, the task returns
StreamNextErr ==
    /\ sse_pc = "reading"
    /\ sse_out' = Append(sse_out, StreamChunkError(STREAM_ERROR))
    /\ sse_pc' = "returned"
    /\ UNCHANGED <<sse_stream, buffer, server_config, attestation_url, sessVars, admitVars,
                   attVars, rtVars>>

\* stream.next().await gives None: the body is read to its end
StreamNextNone ==
    /\ sse_pc = "reading"
    /\ sse_stream.read = Len(sse_stream.bytes)
    /\ sse_out' = sse_out \o StreamEnded
    /\ sse_pc' = "returned"
    /\ UNCHANGED <<sse_stream, buffer, server_config, attestation_url, sessVars, admitVars,
                   attVars, rtVars>>

NextSse ==
    \/ \E k \in 1..MaxRead : StreamNextBytes(k)
    \/ StreamNextBytes(Len(sse_stream.bytes) - sse_stream.read)
    \/ ProcessEvent
    \/ StreamNextErr
    \/ StreamNextNone

SpecSse == InitSse /\ [][NextSse]_vars

(***************************************************************************)
(* Properties                                                              *)
(***************************************************************************)

\* C1 (SpecAdmit): at most MAX_CONCURRENT_CONNECTIONS session tasks are live
\* at any moment, and a connection accepted while that many are live is
\* dropped at once: it leaves the listener, no task is spawned for it, and
\* nothing keeps it for later.
C1_AdmissionCap ==
    /\ [](live <= MAX_CONCURRENT_CONNECTIONS)
    /\ [][(backlog' < backlog /\ live = MAX_CONCURRENT_CONNECTIONS)
            => /\ live' = live
               /\ permits' = permits
               /\ backlog' = backlog - 1
               /\ lastAccept' = "rejected"]_vars

\* the cap is reached and a connection has just been rejected
C1_Witness ==
    /\ live = MAX_CONCURRENT_CONNECTIONS
    /\ lastAccept = "rejected"
    /\ dropped > 0

\* C2: the responder reads one handshake message, then writes one, then enters
\* transport mode; nothing of a client record is decrypted, parsed or dispatched
\* before the transport exists.
C2_HandshakeOrder ==
    /\ hsReads <= 1
    /\ hsWrites <= hsReads
    /\ transport => (hsReads = 1 /\ hsWrites = 1)
    /\ (recvN > 0 \/ req # NoRequest \/ calls > 0 \/ lastIn # NoFrame \/ sendN > 0)
          => transport

\* a request was decrypted and dispatched on a session whose handshake is over
C2_Witness ==
    /\ transport
    /\ hsReads = 1
    /\ hsWrites = 1
    /\ recvN = 1
    /\ calls = 1

\* C3: when the first frame is not binary, or message 1 has the wrong length
\* or a tag that does not verify, the session ends in error, nothing was sent
\* to the peer and the transport is never created.
C3_HandshakeFailureSilent ==
    (hsIn # NoHsFrame /\ (hsIn.type # "Binary" \/ hsIn.len # HANDSHAKE1_LEN \/ ~hsIn.tagOk))
       => /\ pc = "done"
          /\ result.done
          /\ ~result.ok
          /\ out = <<>>
          /\ hsWrites = 0
          /\ sendN = 0
          /\ ~transport

\* a message 1 of the right length whose tag does not verify ended the session
C3_Witness ==
    /\ hsIn.type = "Binary"
    /\ hsIn.len = HANDSHAKE1_LEN
    /\ ~hsIn.tagOk
    /\ pc = "done"
    /\ result.msg = "Noise handshake failed"

\* C4 (FairSpec): a session waiting for handshake message 1 eventually ends
\* and gives its permit back, even when the client never sends the message.
C4_HandshakeTimeoutReleasesPermit == (pc = "hs_read") ~> ~permitHeld

\* C5 (FairSpec): every read of the loop starts with the full deadline; the
\* session ends with the timeout error only when a read has been pending for
\* MESSAGE_READ_TIMEOUT; and a read that has been pending that long ends the
\* session with that error.
C5_ReadDeadline ==
    /\ [][(pc' = "loop_read" /\ (pc # "loop_read" \/ framesLeft' # framesLeft))
            => waited' = 0]_vars
    /\ [][(result'.msg = "Connection timed out" /\ ~result.done)
            => (pc = "loop_read" /\ waited = MESSAGE_READ_TIMEOUT)]_vars
    /\ (pc = "loop_read" /\ waited = MESSAGE_READ_TIMEOUT)
          ~> (pc = "done" /\ result = Err("Connection timed out", {}) /\ ~permitHeld)

\* a read that followed a served frame ran into its deadline
C5_Witness ==
    /\ result.msg = "Connection timed out"
    /\ lastIn.type = "Ping"
    /\ waited = MESSAGE_READ_TIMEOUT

\* C6: a text frame received after the handshake closes the session.
C6_TextFrameClosesSession == (lastIn.type = "Text") => (pc = "done" /\ ~result.ok)

\* C7: a step that takes a ping leaves the cipher counters alone, makes no
\* backend or router call, queues no record, and sends exactly one pong with
\* the ping's payload (or ends the session when that send fails); a step that
\* takes a close frame ends the session with success and sends nothing.
C7_PingAndClose ==
    [][/\ (framesLeft' # framesLeft /\ lastIn'.type = "Ping")
            => /\ sendN' = sendN
               /\ recvN' = recvN
               /\ calls' = 0
               /\ todo' = <<>>
               /\ \/ /\ pc' = "loop_read"
                     /\ Len(out') = 1
                     /\ out'[1].type = "Pong"
                     /\ ~out'[1].enc
                     /\ out'[1].body.text = lastIn'.pay
                  \/ /\ pc' = "done"
                     /\ ~result'.ok
                     /\ out' = <<>>
       /\ (framesLeft' # framesLeft /\ lastIn'.type = "Close")
            => /\ pc' = "done"
               /\ result' = OkResult
               /\ out' = <<>>
               /\ sendN' = sendN
               /\ recvN' = recvN
               /\ calls' = 0]_vars

\* a ping with payload p2 was answered and the loop reads on
C7_Witness ==
    /\ lastIn = ControlIn("Ping", "p2")
    /\ pc = "loop_read"
    /\ Len(out) = 1
    /\ out[1].type = "Pong"
    /\ out[1].body.text = "p2"

\* the content c occurs in no error, log line or frame sent
NoLeak(c) ==
    /\ c \notin result.data
    /\ \A l \in log : c \notin l.data
    /\ \A i \in 1..Len(out) : out[i].body.text # c /\ out[i].body.err # c

\* C8: a record that decrypts but does not parse ends the session with the
\* fixed error message, no backend or router call is made for it, nothing is
\* sent, and its plaintext is in no error, log line or frame.
C8_ParseFailureSanitized ==
    (lastIn.type = "Binary" /\ lastIn.ok /\ ~lastIn.pt.json)
       => /\ pc = "done"
          /\ ~result.ok
          /\ result.msg = "Failed to parse request: invalid JSON format"
          /\ calls = 0
          /\ out = <<>>
          /\ todo = <<>>
          /\ NoLeak(lastIn.pt.text)

\* a record that does not parse was received and the session is over
C8_Witness ==
    /\ lastIn = BinaryIn(TRUE, Junk)
    /\ recvN > 0
    /\ pc = "done"

\* the last frame taken is a request with stream = s, served in mode m
Serving(m, s) ==
    /\ mode = m
    /\ lastIn.type = "Binary"
    /\ lastIn.ok
    /\ lastIn.pt.json
    /\ lastIn.pt.stream = s

\* C9: in server mode a request with stream = false never gets a terminator
\* nor a second record; once it is served (the loop reads again, or the
\* session ended later) exactly one sealed response was sent for it, with a
\* finish_reason when the backend call succeeded and with the error set when
\* it failed. A session cut by a failing seal or send has sent nothing for it.
C9_LocalNonStreaming ==
    Serving("Server", FALSE)
       => /\ Len(out) <= 1
          /\ \A i \in 1..Len(out) :
                /\ out[i].enc
                /\ out[i].body.kind = "response"
                /\ (out[i].body.err = "") = (out[i].body.fin = "stop")
          /\ calls <= 1
          /\ (pc \in {"loop_read", "done"})
                => \/ Len(out) = 1 /\ calls = 1
                   \/ pc = "done" /\ ~result.ok /\ out = <<>>

\* a failed backend call was answered with one error response
C9_Witness ==
    /\ Serving("Server", FALSE)
    /\ pc = "loop_read"
    /\ Len(out) = 1
    /\ out[1].enc
    /\ out[1].body.err = "vllm error"

\* the streamed answer to the last request is complete (the terminator went
\* out) and holds no error record
StreamedClean ==
    /\ Serving("Server", TRUE)
    /\ Len(out) > 0
    /\ out[Len(out)] = Terminator
    /\ \A i \in 1..Len(out) : out[i].body.kind \notin {"error", "response"}

\* sealed text-delta records, then one sealed finish, then the terminator
DeltasFinishTerminator ==
    /\ Len(out) >= 2
    /\ \A i \in 1..(Len(out) - 2) : out[i].enc /\ out[i].body.kind = "text-delta"
    /\ out[Len(out) - 1].enc
    /\ out[Len(out) - 1].body.kind = "finish"
    /\ out[Len(out)] = Terminator

\* C10 as stated: a stream the backend accepted and delivered without error
\* gives N >= 1 text-delta records, one finish record, one terminator.
C10_AtLeastOneDelta == StreamedClean => (DeltasFinishTerminator /\ Len(out) >= 3)

\* C10 as amended: N >= 0 text-delta records, then exactly one finish record,
\* then exactly one terminator; and while the answer is being sent nothing
\* follows a finish but the terminator, and nothing follows the terminator.
C10_DeltasFinishTerminator ==
    /\ StreamedClean => DeltasFinishTerminator
    /\ Serving("Server", TRUE)
          => /\ \A i \in 1..Len(out) :
                   /\ (out[i] = Terminator) => (i = Len(out))
                   /\ (out[i].body.kind \in {"finish", "error"} /\ i < Len(out))
                         => (i = Len(out) - 1 /\ out[Len(out)] = Terminator)
             /\ (pc = "loop_read") => (out # <<>> /\ out[Len(out)] = Terminator)

\* a clean stream with one text-delta record was sent in full
C10_Witness ==
    /\ StreamedClean
    /\ Len(out) = 3
    /\ out[1].body.kind = "text-delta"
    /\ pc = "loop_read"

\* the last frame taken is a request with stream = true
StreamRequest ==
    /\ lastIn.type = "Binary"
    /\ lastIn.ok
    /\ lastIn.pt.json
    /\ lastIn.pt.stream

\* the bodies of a sequence of frames, in order
Bodies(frames) == [i \in 1..Len(frames) |-> frames[i].body]

\* how many of the frames sent for the last frame taken are terminators
Terminators == Cardinality({i \in 1..Len(out) : out[i] = Terminator})

\* C11 (FairSpec): a request with stream = true, in either mode, is answered
\* with exactly one terminator, sent last and before the next frame is read:
\*  - a terminator in the frames sent is the last of them and nothing is left
\*    to send; when the loop reads again exactly one terminator was sent;
\*  - a stream that cannot be started queues one error response, then the
\*    terminator, and nothing was sent before them;
\*  - what is queued is sent in the order queued, one frame per step;
\*  - an error response is followed by the terminator only;
\*  - the serving of the request ends: the terminator goes out and the loop
\*    reads again, or a failing seal or send ends the session with an error
\*    and without a terminator.
C11_StreamEndsWithTerminator ==
    /\ [](StreamRequest
            => /\ \A i \in 1..Len(out) :
                     /\ (out[i] = Terminator)
                           => (i = Len(out) /\ todo = <<>> /\ pc \in {"loop_read", "done"})
                     /\ (out[i].body.kind = "response" /\ i < Len(out))
                           => (i = Len(out) - 1 /\ out[Len(out)] = Terminator)
               /\ (pc = "loop_read") => (Terminators = 1 /\ out[Len(out)] = Terminator)
               /\ (pc = "done") => \/ (Terminators = 1 /\ out[Len(out)] = Terminator)
                                   \/ (~result.ok /\ Terminators = 0))
    /\ [][(pc \in {"stream_open", "router_open"} /\ pc' \notin {pc, "stream_recv"})
            => /\ pc' = "send"
               /\ out' = <<>>
               /\ Len(todo') = 2
               /\ todo'[1].kind = "response"
               /\ todo'[1].err # ""
               /\ todo'[2] = Empty]_vars
    /\ [][(pc = "send" /\ pc' # "done" /\ <<out', todo'>> # <<out, todo>>)
            => /\ Len(out') = Len(out) + 1
               /\ Bodies(out') \o todo' = Bodies(out) \o todo
               /\ out'[Len(out')].enc = (out'[Len(out')].body # Empty)]_vars
    /\ (StreamRequest /\ pc \notin {"loop_read", "done"})
          ~> \/ (pc = "loop_read" /\ Terminators = 1 /\ out[Len(out)] = Terminator)
             \/ (pc = "done" /\ ~result.ok)

\* a stream the backend refused was answered with one error response and the
\* terminator, and the loop reads again
C11_Witness ==
    /\ StreamRequest
    /\ mode = "Server"
    /\ pc = "loop_read"
    /\ Len(out) = 2
    /\ out[1].enc
    /\ out[1].body.kind = "response"
    /\ out[1].body.err = "vllm error"
    /\ out[2] = Terminator

\* C12 (FairSpec): in router mode a request with stream = false is answered
\* with one sealed response followed by one terminator, and nothing else:
\*  - the frames sent for it are at most those two, in that order, after one
\*    router call; the response has a finish_reason and no error, or an error
\*    and no content;
\*  - the router call queues the response and the terminator, and a failed
\*    forward_request is queued as a response with the error set;
\*  - when the loop reads again both frames were sent; a session that ended
\*    without both ended with the error of a failing seal or send;
\*  - the serving ends in one of these two ways.
C12_RoutedNonStreaming ==
    /\ [](Serving("Router", FALSE)
            => /\ Len(out) <= 2
               /\ calls <= 1
               /\ Len(out) >= 1
                     => /\ out[1].enc
                        /\ out[1].body.kind = "response"
                        /\ \/ out[1].body.fin = "stop" /\ out[1].body.err = ""
                           \/ /\ out[1].body.err # ""
                              /\ out[1].body.text = ""
                              /\ out[1].body.fin = ""
               /\ Len(out) = 2 => (out[2] = Terminator /\ todo = <<>>)
               /\ (pc = "loop_read") => (Len(out) = 2 /\ calls = 1)
               /\ (pc = "done") => (Len(out) = 2 \/ ~result.ok))
    /\ [][(pc = "router_call" /\ pc' # pc)
            => /\ pc' = "send"
               /\ out' = <<>>
               /\ Len(todo') = 2
               /\ todo'[1].kind = "response"
               /\ todo'[2] = Empty
               /\ (LogLine("error", "Routed inference error", {"router error"})
                      \in log' \ log)
                     => todo'[1] = Response("", "", "router error")]_vars
    /\ (Serving("Router", FALSE) /\ pc \notin {"loop_read", "done"})
          ~> \/ (pc = "loop_read" /\ Len(out) = 2 /\ out[2] = Terminator)
             \/ (pc = "done" /\ ~result.ok)

\* a failed forward_request was answered with one error response and the
\* terminator, and the loop reads again
C12_Witness ==
    /\ Serving("Router", FALSE)
    /\ pc = "loop_read"
    /\ Len(out) = 2
    /\ out[1].enc
    /\ out[1].body = Response("", "", "router error")
    /\ out[2] = Terminator

\* how many of the frames sent for the last frame taken are responses
ResponsesSent == Cardinality({i \in 1..Len(out) : out[i].body.kind = "response"})

\* C13 (FairSpec): the relay of a router-mode stream. A downstream error is
\* an Err item of the channel that forward_request_streaming returned.
\*  - the relay queues what it receives at the end of the channel;
\*  - each step of the loop that sends takes the oldest item of the channel
\*    and sends it as one sealed record, so the records go out in the order
\*    the items were received;
\*  - the loop is left when the channel is closed and empty, with the
\*    terminator left to send, or at the first Err item, with one error
\*    response and the terminator left to send and nothing else relayed;
\*  - in the frames sent at most one is an error response, only the
\*    terminator follows it, and the terminator is last;
\*  - the relay ends: the loop reads again, or a failing seal or send ended
\*    the session with an error.
C13_RouterRelay ==
    /\ [](Serving("Router", TRUE)
            => /\ \A i \in 1..Len(out) :
                     /\ (out[i] # Terminator) => out[i].enc
                     /\ (out[i] = Terminator) => (i = Len(out))
                     /\ out[i].body.kind \in {"text-delta", "finish", "error",
                                              "response", "empty"}
                     /\ (out[i].body.kind = "response" /\ i < Len(out))
                           => (i = Len(out) - 1 /\ out[Len(out)] = Terminator)
               /\ ResponsesSent <= 1
               /\ (pc \in {"send", "loop_read"}) => chan = <<>>)
    /\ [][(mode = "Router" /\ pc = "stream_recv")
            => /\ (chan' # chan /\ out' = out /\ pc' = pc)
                     => /\ Len(chan') = Len(chan) + 1
                        /\ SubSeq(chan', 1, Len(chan)) = chan
               /\ (out' # out)
                     => /\ chan # <<>>
                        /\ Head(chan).kind \in {"text-delta", "finish", "error"}
                        /\ out' = Append(out, [type |-> "Binary", enc |-> TRUE,
                                               n |-> sendN, body |-> Head(chan)])
                        /\ chan' = Tail(chan)
                        /\ pc' = pc
               /\ (pc' = "send")
                     => /\ out' = out
                        /\ \/ /\ chan = <<>>
                              /\ prod = "closed"
                              /\ todo' = <<Empty>>
                           \/ /\ chan # <<>>
                              /\ Head(chan).kind = "relay-err"
                              /\ todo' = <<Response("", "", Head(chan).err), Empty>>
               /\ (pc' = "done") => ~result'.ok]_vars
    /\ (mode = "Router" /\ pc = "stream_recv")
          ~> \/ (pc = "loop_read" /\ out # <<>> /\ out[Len(out)] = Terminator)
             \/ (pc = "done" /\ ~result.ok)

\* a chunk was relayed, then the relay failed: one error response and the
\* terminator followed, and the loop reads again
C13_Witness ==
    /\ Serving("Router", TRUE)
    /\ pc = "loop_read"
    /\ Len(out) = 3
    /\ out[1].enc
    /\ out[1].body.kind = "text-delta"
    /\ out[2].enc
    /\ out[2].body = Response("", "", "router error")
    /\ out[3] = Terminator

\* every frame the answer to the last request consists of has been sent
AnswerComplete ==
    (lastIn.type = "Binary" /\ lastIn.ok /\ lastIn.pt.json)
       => IF lastIn.pt.stream
            THEN Terminators = 1 /\ out[Len(out)] = Terminator
            ELSE IF mode = "Server"
              THEN Len(out) = 1 /\ out[1].enc
              ELSE Len(out) = 2 /\ out[1].enc /\ out[2] = Terminator

\* C14: within a session the answers go out in the order of the requests,
\* and the chunks of a stream in the order the backend produced them:
\*  - a frame is taken from the socket, and a record decrypted, only while
\*    the loop is reading, with nothing left to send, and after every frame
\*    of the answer to the request before it was sent;
\*  - between two reads the frames sent only grow at their end;
\*  - the task that reads the backend's stream queues chunks at the end of
\*    the channel, and the loop sends the oldest chunk of the channel first.
C14_ResponsesInOrder ==
    /\ [][(framesLeft' # framesLeft \/ recvN' # recvN)
            => /\ framesLeft' = framesLeft - 1
               /\ recvN' \in {recvN, recvN + 1}
               /\ pc = "loop_read"
               /\ todo = <<>>
               /\ AnswerComplete]_vars
    /\ [][(out' # out /\ framesLeft' = framesLeft)
            => /\ pc # "loop_read"
               /\ Len(out') = Len(out) + 1
               /\ SubSeq(out', 1, Len(out)) = out]_vars
    /\ [][(pc = "stream_recv" /\ pc' = pc)
            => /\ (chan' # chan /\ out' = out)
                     => /\ Len(chan') > Len(chan)
                        /\ SubSeq(chan', 1, Len(chan)) = chan
               /\ (out' # out)
                     => /\ chan # <<>>
                        /\ out'[Len(out')].body = Head(chan)
                        /\ chan' = Tail(chan)]_vars

\* two streamed requests were taken one after the other and the second was
\* answered in full
C14_Witness ==
    /\ recvN = 2
    /\ StreamRequest
    /\ mode = "Server"
    /\ pc = "loop_read"
    /\ Len(out) = 3
    /\ out[1].body.kind = "text-delta"
    /\ out[1].n = sendN - 2
    /\ out[2].body.kind = "finish"
    /\ out[3] = Terminator
    /\ sendN >= 3

\* C15: the nonces of the sealed records of a session are all different.
\*  - the send counter starts at 0 with the transport, never decreases, and
\*    moves by one at a time;
\*  - a sealed record sent carries the value the counter had before the step,
\*    and the step moves the counter past it;
\*  - a step that sends a terminator, a pong or handshake message 2 leaves
\*    the counter alone, and these frames carry no nonce;
\*  - the counter moves only in a step that seals: one that sends the sealed
\*    record, or one whose send fails and ends the session;
\*  - so every sealed record sent has a nonce below the counter, and among
\*    the records sent since the last read the nonces increase.
C15_NoncesDistinct ==
    /\ [](/\ sendN >= 0
          /\ ~transport => sendN = 0
          /\ \A i \in 1..Len(out) :
                /\ out[i].enc => (out[i].n >= 0 /\ out[i].n < sendN)
                /\ ~out[i].enc => out[i].n = -1
          /\ \A i, j \in 1..Len(out) :
                (i < j /\ out[i].enc /\ out[j].enc) => out[i].n < out[j].n)
    /\ [][/\ sendN' \in {sendN, sendN + 1}
          /\ (Len(out') = Len(out) + 1 /\ out'[Len(out')].enc)
                => (out'[Len(out')].n = sendN /\ sendN' = sendN + 1)
          /\ (out' # <<>> /\ out' # out /\ ~out'[Len(out')].enc)
                => sendN' = sendN
          /\ (sendN' # sendN)
                => \/ Len(out') = Len(out) + 1 /\ out'[Len(out')].enc
                   \/ pc' = "done" /\ result' = IoError /\ out' = out]_vars

\* after earlier records of the session, a relayed stream of two chunks was
\* sent with consecutive nonces, and its terminator left the counter alone
C15_Witness ==
    /\ Serving("Router", TRUE)
    /\ pc = "loop_read"
    /\ Len(out) = 3
    /\ out[1].enc
    /\ out[1].n > 0
    /\ out[2].enc
    /\ out[2].n = out[1].n + 1
    /\ out[3] = Terminator
    /\ sendN = out[2].n + 1

\* the bodies that are sealed: an InferenceResponse or a StreamChunk
RecordKinds == {"response", "text-delta", "finish", "error"}

\* C16: once the transport exists, a binary frame sent to the client is
\* either a record sealed by the session's transport, holding a response or
\* a chunk, or the zero-length terminator, which is the only binary frame
\* sent unsealed; the only other frame sent is a pong.
C16_OnlySealedRecords ==
    /\ [][(transport /\ out' # out /\ out' # <<>>)
            => LET f == out'[Len(out')]
               IN  \/ /\ f.type = "Binary"
                      /\ f.enc
                      /\ f.n = sendN
                      /\ f.body.kind \in RecordKinds
                   \/ /\ f.type = "Binary"
                      /\ ~f.enc
                      /\ f.body = Empty
                   \/ /\ f.type = "Pong"
                      /\ f.body.kind = "pong"]_vars
    /\ [](lastIn # NoFrame
            => \A i \in 1..Len(out) :
                  (out[i].type = "Binary")
                     => /\ out[i].enc = (out[i].body # Empty)
                        /\ out[i].body.kind \in RecordKinds \cup {"empty"})

\* a routed response went out sealed and its terminator unsealed
C16_Witness ==
    /\ transport
    /\ Serving("Router", FALSE)
    /\ Len(out) = 2
    /\ out[1].type = "Binary"
    /\ out[1].enc
    /\ out[1].body = Response("content", "stop", "")
    /\ out[2].type = "Binary"
    /\ ~out[2].enc
    /\ out[2].body = Empty

\* what the plaintexts of a session consist of: the text of a request (or
\* the bytes of a record that does not parse), the content of a response,
\* the text of a stream chunk
PlaintextContents == {"q", "junk", "content"}

\* C17: no log line, at any level, carries the content of a decrypted
\* request, of a response or of a stream chunk.
C17_NoPlaintextLogged == \A l \in log : l.data \cap PlaintextContents = {}

\* the sequence needle occurs in the sequence hay, as one piece
Occurs(needle, hay) ==
    \E i \in 1..(Len(hay) - Len(needle) + 1) :
        SubSeq(hay, i, i + Len(needle) - 1) = needle

\* the key k occurs in the text t, in hex or in base64
KeyInText(k, t) == Occurs(HexEncode(k), t) \/ Occurs(Base64Encode(k), t)

\* the key k occurs in the quote q of a response: in one of its texts, or in
\* the bytes its quote field encodes
KeyInQuote(k, q) ==
    \/ KeyInText(k, q.quote)
    \/ Occurs(k, Base64Decode(q.quote))
    \/ KeyInText(k, q.public_key)
    \/ KeyInText(k, q.public_key_hash)
    \/ KeyInText(k, q.report_data)
    \/ Occurs(k, HexDecode(q.report_data))

\* C18 (SpecHttp): once the key pair exists, the private key occurs in no
\* log line of main, of the HTTP handlers or of the creation of a responder,
\* and in no response of /attestation, /models or /health; the key that is
\* logged and served is the public key of the pair.
C18_PrivateKeyNeverOutput ==
    (noise_server # NoKeys)
       => /\ \A l \in srvLog : ~KeyInText(noise_server.private_key, l.arg)
          /\ ~KeyInQuote(noise_server.private_key, httpResp.att)
          /\ ~KeyInText(noise_server.private_key, httpResp.text)
          /\ \A i \in 1..Len(httpResp.models) :
                <<httpResp.models[i]>> \notin {HexEncode(noise_server.private_key),
                                               Base64Encode(noise_server.private_key)}
          /\ \A l \in srvLog :
                (l.msg \in {"Noise server initialized with public key",
                            "Created Noise responder, server pubkey"})
                   => l.arg = HexEncode(noise_server.public_key)
          /\ (httpResp.route = "/attestation" /\ httpResp.status = 200)
                => httpResp.att.public_key = Base64Encode(noise_server.public_key)

\* the public key was logged at start-up and at the creation of a responder,
\* and an attestation response was served
C18_Witness ==
    /\ boot = "serving"
    /\ responder = noise_server.private_key
    /\ httpResp.route = "/attestation"
    /\ httpResp.att.attestation_type = "mock-sev-snp"
    /\ \E l \in srvLog : l.msg = "Noise server initialized with public key"
    /\ \E l \in srvLog : l.msg = "Created Noise responder, server pubkey"


\* the last response is an attestation served on /attestation
Attested == httpResp.route = "/attestation" /\ httpResp.status = 200

\* C19: in every attestation response, of the IMDS provider, of the mock
\* provider or of the mock fallback after an IMDS failure, public_key_hash
\* (hex) is SHA-256 of the public key the same response carries (base64), and
\* that public key is the public half of the key pair whose private half the
\* handshake responders are built from
C19_HashBindsStaticKey ==
    /\ Attested =>
          /\ httpResp.att.attestation_type \in {"azure-imds", "mock-sev-snp"}
          /\ HexDecode(httpResp.att.public_key_hash)
                = Sha256(Base64Decode(httpResp.att.public_key))
          /\ Base64Decode(httpResp.att.public_key) = noise_server.public_key
          /\ httpResp.att.attestation_type = "azure-imds" => attestation.is_azure
    /\ responder # <<>> =>
          [private |-> responder, public |-> noise_server.public_key] \in KeyPairs

\* after a responder was built, an Azure service served the mock fallback
C19_Witness ==
    /\ Attested
    /\ attestation.is_azure
    /\ httpResp.att.attestation_type = "mock-sev-snp"
    /\ responder # <<>>
    /\ \E l \in srvLog : l.msg = "Azure attestation failed, falling back to mock"


\* C20: under the mock provider report_data has 64 bytes, the first 32 being
\* public_key_hash and the last 32 being SHA-256 of the nonce when one is
\* supplied, a nonce of no bytes included (SHA-256 of the empty string), and
\* zeros when none is supplied; the same 64 bytes stand at offset 80 of the
\* quote, and the response carries both in hex and in base64
C20_MockReportData ==
    mockQuote # NoQuote =>
        /\ Len(report_data) = 64
        /\ \A i \in 1..32 : report_data[i] = attestation.public_key_hash[i]
        /\ nonce.some => \A i \in 1..32 : report_data[32 + i] = Sha256(nonce.bytes)[i]
        /\ (nonce.some /\ nonce.bytes = <<>>) =>
               \A i \in 1..32 : report_data[32 + i] = Sha256(<<>>)[i]
        /\ ~nonce.some => \A i \in 1..32 : report_data[32 + i] = 0
        /\ Len(quote) = 1184
        /\ \A i \in 1..64 : quote[80 + i] = report_data[i]
        /\ HexDecode(mockQuote.report_data) = report_data
        /\ Base64Decode(mockQuote.quote) = quote
        /\ mockQuote.attestation_type = "mock-sev-snp"

\* the mock quote of a nonce of no bytes was produced, and the hash of the
\* empty string is not the zeros of a missing nonce
C20_Witness ==
    /\ mockQuote # NoQuote
    /\ nonce = SomeNonce(<<>>)
    /\ Slice(report_data, 32, 64) = Sha256(<<>>)
    /\ Slice(report_data, 32, 64) # Zeros(32)
    /\ Slice(quote, 80, 144) = report_data


\* C21 (SpecHttp): generate_quote always returns a quote. When the IMDS
\* provider was selected at start-up and the request for the document fails
\* (no answer, a status that is not 2xx, a body that does not parse), the
\* response of that request is the mock quote, of type mock-sev-snp and
\* without azure_encoding, and the fallback is logged; when IMDS answers, the
\* type is azure-imds and azure_encoding is the encoding of the document;
\* when IMDS was not selected, no request is ever made to it.
C21_QuoteAlwaysReturned ==
    /\ (httpReq.method = "GET" /\ httpReq.route = "/attestation")
          => /\ httpResp.status = 200
             /\ httpResp.att # NoQuote
             /\ httpResp.att.attestation_type \in {"azure-imds", "mock-sev-snp"}
    /\ (Attested /\ attestation.is_azure)
          => /\ imdsReply \in ImdsOutcomes
             /\ imdsCalls > 0
             /\ ~imdsReply.ok
                   => /\ httpResp.att.attestation_type = "mock-sev-snp"
                      /\ httpResp.att.azure_encoding = ""
                      /\ httpResp.att.quote # <<>>
                      /\ \E l \in srvLog :
                            /\ l.level = "warn"
                            /\ l.msg = "Azure attestation failed, falling back to mock"
                            /\ l.arg = <<imdsReply.error>>
             /\ imdsReply.ok
                   => /\ httpResp.att.attestation_type = "azure-imds"
                      /\ httpResp.att.azure_encoding = imdsReply.encoding
                      /\ httpResp.att.azure_encoding # ""
                      /\ httpResp.att.quote = imdsReply.signature
    /\ ~attestation.is_azure
          => /\ imdsCalls = 0
             /\ imdsReply = NoImdsReply
             /\ Attested => /\ httpResp.att.attestation_type = "mock-sev-snp"
                            /\ httpResp.att.azure_encoding = ""

\* on Azure a document was served by one request, and the next request, whose
\* document did not parse, was served the mock quote
C21_Witness ==
    /\ Attested
    /\ attestation.is_azure
    /\ imdsCalls = 2
    /\ imdsReply = ImdsUnparsable
    /\ httpResp.att.attestation_type = "mock-sev-snp"
    /\ \E l \in srvLog : l.arg = <<"azure-imds">>


\* C22 (SpecHttp): a POST on /attestation with an optional nonce is served
\* the response of a GET on /attestation, with the UTF-8 bytes of the nonce
\* mixed into report_data when the provider is not IMDS.
C22_PostAttestationServed ==
    (httpReq.method = "POST" /\ httpReq.route = "/attestation")
       => /\ httpResp.status = 200
          /\ httpResp.att.attestation_type \in {"azure-imds", "mock-sev-snp"}
          /\ ~attestation.is_azure
                => httpResp.att = PostAttestationQuote(attestation, httpReq.nonce, NoImdsReply)
          /\ (httpResp.att.attestation_type = "mock-sev-snp")
                => Slice(HexDecode(httpResp.att.report_data), 32, 64)
                      = (IF httpReq.nonce.some
                           THEN Sha256(Utf8Encode(httpReq.nonce.chars))
                           ELSE Zeros(32))


\* the fields of the layout table of the mock quote: offset, length
QuoteLayoutFields ==
    {<<0, 4>>, <<4, 4>>, <<8, 8>>, <<16, 16>>, <<32, 16>>, <<52, 4>>, <<56, 8>>,
     <<80, 64>>, <<144, 32>>, <<320, 32>>, <<400, 64>>, <<672, 32>>}

\* b"mock-report-id"
MockReportIdInput ==
    <<109, 111, 99, 107, 45, 114, 101, 112, 111, 114, 116, 45, 105, 100>>

\* C23 (SpecQuote): the mock quote has 1184 bytes and is a function of
\* report_data alone; every field of the layout table has its value at its
\* offset, the report id at offset 320 and the chip id (0x4D repeated) at
\* offset 400 included, and every byte outside the fields of the table is 0.
C23_MockQuoteLayout ==
    mockQuote # NoQuote =>
        /\ Len(quote) = 1184
        /\ Slice(quote, 0, 4) = <<2, 0, 0, 0>>
        /\ Slice(quote, 4, 8) = <<0, 0, 0, 0>>
        /\ Slice(quote, 8, 16) = <<48, 0, 0, 0, 1, 0, 0, 0>>
        /\ Slice(quote, 16, 32) = MOCK_FAMILY_ID
        /\ Slice(quote, 32, 48) = MOCK_IMAGE_ID
        /\ Slice(quote, 52, 56) = <<1, 0, 0, 0>>
        /\ Slice(quote, 56, 64) = <<3, 0, 49, 0, 20, 0, 0, 0>>
        /\ Slice(quote, 80, 144) = report_data
        /\ Slice(quote, 144, 176) = Sha256(MOCK_MEASUREMENT_INPUT)
        /\ Slice(quote, 320, 352) = Sha256(MockReportIdInput)
        /\ Slice(quote, 400, 464) = [i \in 1..64 |-> 77]
        /\ Slice(quote, 672, 704) = Sha256(MOCK_SIGNATURE_INPUT)
        /\ \A i \in 0..1183 :
              (\A f \in QuoteLayoutFields : i < f[1] \/ i >= f[1] + f[2])
                 => quote[i + 1] = 0
        /\ Base64Decode(mockQuote.quote) = quote


\* the servers of the configuration that list the model m, and those that
\* list the wildcard, by their position
Listing(m) ==
    {i \in 1..Len(config) : \E j \in 1..Len(config[i].models) : config[i].models[j] = m}
First(S) == CHOOSE i \in S : \A j \in S : i <= j

\* the server the rule of resolution gives the model m
Resolved(m) ==
    IF m \in DOMAIN model_to_server THEN model_to_server[m]
    ELSE IF Listing("*") # {} THEN config[First(Listing("*"))].id
    ELSE IF Len(config) > 0 THEN config[1].id
    ELSE NoServer

\* C24 (SpecRouter): for every model the resolution returns the server of
\* the explicit model_to_server entry when there is one, else the first
\* configured server listing "*", else the first configured server, else no
\* server; the wildcard is never indexed, an entry names a server listing
\* the model, and neither the index nor the result for a model changes,
\* whatever was connected, evicted or cached in between.
C24_ModelResolution ==
    /\ [](/\ "*" \notin DOMAIN model_to_server
          /\ \A m \in DOMAIN model_to_server :
                \E i \in Listing(m) : config[i].id = model_to_server[m]
          /\ \A m \in ModelIds \cup {"*"} :
                /\ GetServerForModel(config, model_to_server, m) = Resolved(m)
                /\ (m # "*" /\ Listing(m) # {}) => m \in DOMAIN model_to_server
          /\ (rpc \notin {"idle", "none"}) => server_id = Resolved(model_id))
    /\ [][/\ model_to_server' = model_to_server
          /\ config' = config
          /\ \A m \in ModelIds :
                GetServerForModel(config', model_to_server', m)
                   = GetServerForModel(config, model_to_server, m)]_vars

\* after a connection was evicted and while another is in the pool and a key
\* is cached, a model that no server lists is resolved to the wildcard
\* server, which is not the first server
C24_Witness ==
    /\ rpc = "forward"
    /\ model_id = "default"
    /\ server_id = "s2"
    /\ config[1].id = "s1"
    /\ evicted # {}
    /\ DOMAIN public_key_cache # {}
    /\ "m1" \in DOMAIN model_to_server


\* the configuration of the server of the current request provides a
\* non-empty hex key of 32 bytes
StaticKeyOf32Bytes ==
    LET txt == GetServerConfig(config, server_id).public_key
    IN  /\ txt.some
        /\ txt.chars # <<>>
        /\ HexValid(txt.chars)
        /\ Len(HexDecode(txt.chars)) = 32

\* C25 (SpecRouter): the public key of a server is resolved in the order
\* static key, cache, fetch. A non-empty hex key of 32 bytes in the
\* configuration is returned without a read or a write of public_key_cache
\* and without a fetch; otherwise a cached key is returned without a fetch;
\* otherwise the key is fetched, and cached under the id of the server only
\* when the fetch gives a key of 32 bytes.
C25_KeyResolutionOrder ==
    /\ [][(rpc = "get_key" /\ rpc' # "get_key")
            => /\ public_key_cache' = public_key_cache
               /\ IF StaticKeyOf32Bytes
                    THEN /\ rpc' = "connect"
                         /\ keySrc' = "static"
                         /\ server_public_key'
                               = HexDecode(GetServerConfig(config, server_id).public_key.chars)
                    ELSE IF server_id \in DOMAIN public_key_cache
                           THEN /\ rpc' = "connect"
                                /\ keySrc' = "cache"
                                /\ server_public_key'
                                      = HexDecode(public_key_cache[server_id])
                           ELSE rpc' = "fetch"]_vars
    /\ [][(rpc = "fetch" /\ rpc' # "fetch")
            => IF rpc' = "connect"
                 THEN /\ Len(server_public_key') = 32
                      /\ keySrc' = "fetch"
                      /\ DOMAIN public_key_cache' = DOMAIN public_key_cache \cup {server_id}
                      /\ HexDecode(public_key_cache'[server_id]) = server_public_key'
                      /\ \A s \in DOMAIN public_key_cache \ {server_id} :
                            public_key_cache'[s] = public_key_cache[s]
                 ELSE public_key_cache' = public_key_cache]_vars


\* connect_to_server is running for the current request
Connecting == rpc \in {"get_key", "fetch", "connect"}

\* C26 (SpecRouter): ensure_connection for a server that has no pool entry
\* calls connect_to_server at most twice. When the first call fails, the
\* cached key of the server is removed and one retry is made; when the retry
\* fails too, its error is returned, the pool has no entry for the server,
\* and there is no third call.
C26_ConnectRetriedOnce ==
    /\ [](/\ attempts \in 0..2
          /\ (Connecting \/ rpc = "invalidate")
                => /\ attempts \in 1..2
                   /\ server_id \notin DOMAIN connections
          /\ rpc = "invalidate" => attempts = 1)
    /\ [][(Connecting /\ attempts = 1 /\ rpc' \notin {"get_key", "fetch", "connect", "forward"})
            => /\ rpc' = "invalidate"
               /\ ~rResult'.done
               /\ server_id' = server_id]_vars
    /\ [][(rpc = "invalidate" /\ rpc' # "invalidate")
            => /\ server_id \notin DOMAIN public_key_cache'
               /\ attempts' = 2
               /\ rpc' = "get_key"
               /\ connections' = connections]_vars
    /\ [][(Connecting /\ attempts = 2 /\ rpc' \notin {"get_key", "fetch", "connect", "forward"})
            => /\ rpc' = "idle"
               /\ rResult'.done /\ ~rResult'.ok
               /\ server_id \notin DOMAIN connections']_vars
    /\ [][(attempts' # attempts /\ attempts' # 0)
            => \/ attempts = 0 /\ attempts' = 1 /\ rpc = "idle"
               \/ attempts = 1 /\ attempts' = 2 /\ rpc = "invalidate"]_vars

\* both calls failed at the WebSocket connection, after a key was fetched
\* for each: the error was returned and the pool has no connection
C26_Witness ==
    /\ rpc = "idle"
    /\ rResult = RouterErr("WebSocket connection failed")
    /\ connections = EmptyMap
    /\ DOMAIN public_key_cache # {}


\* C27 (SpecRouter): when the exchange of forward_request with the server
\* fails (the send fails, the response does not come in time, the
\* connection ends, a close frame or a frame of another type comes, the
\* response does not decrypt or decode), forward_request removes the
\* connection of that server from the pool and returns the error.
C27_FailureRemovesConnection ==
    [][(rpc = "forward" /\ rpc' = "idle" /\ server_id \in DOMAIN connections)
          => \/ rResult' = RouterOk
             \/ /\ rResult'.done /\ ~rResult'.ok
                /\ server_id \notin DOMAIN connections']_vars

\* C28 (SpecRouter): whenever a connection is removed from the pool, by the
\* health check or by a failure of forward_request, public_key_cache has no
\* key for that server once the removal is finished: at once, or, for the
\* health check, after the invalidation that follows the removal.
C28_KeyInvalidatedWithEntry ==
    /\ [][\A id \in DOMAIN connections \ DOMAIN connections' :
             \/ id \notin DOMAIN public_key_cache'
             \/ hpc' = "invalidate" /\ hcDead' = id]_vars
    /\ [][(hpc = "invalidate" /\ hpc' # "invalidate")
             => hcDead \notin DOMAIN public_key_cache']_vars


\* C29 (SpecRouter): a health-check tick collects the servers of the pool
\* and pings each of them. A ping that fails or times out removes the
\* connection of that server, and the invalidation that follows removes its
\* cached key; a ping that succeeds leaves the pool and the cache as they
\* were; the connections and the cached keys of the other servers are never
\* touched; with an empty pool the tick goes back to sleep and changes nothing.
C29_HealthCheckTick ==
    /\ [][(hpc = "tick" /\ hpc' # "tick")
            => /\ server_ids' = DOMAIN connections
               /\ connections' = connections
               /\ public_key_cache' = public_key_cache
               /\ hpc' = IF DOMAIN connections = {} THEN "sleep" ELSE "ping"]_vars
    /\ [][(hpc = "ping" /\ server_ids' # server_ids)
            => \E id \in server_ids :
                 /\ server_ids' = server_ids \ {id}
                 /\ public_key_cache' = public_key_cache
                 /\ DOMAIN connections' \subseteq DOMAIN connections
                 /\ \A s \in DOMAIN connections \ {id} :
                       s \in DOMAIN connections' /\ connections'[s] = connections[s]
                 /\ id \in DOMAIN connections
                       => \/ /\ ping_result' = "ok"
                             /\ connections' = connections
                             /\ hpc' # "invalidate"
                          \/ /\ ping_result' = "failed"
                             /\ id \notin DOMAIN connections'
                             /\ hpc' = "invalidate"
                             /\ hcDead' = id
                 /\ id \notin DOMAIN connections
                       => connections' = connections /\ hpc' # "invalidate"
                 /\ hpc' = "sleep" => server_ids' = {}]_vars
    /\ [][(hpc = "invalidate" /\ hpc' # "invalidate")
            => /\ hcDead \notin DOMAIN public_key_cache'
               /\ DOMAIN public_key_cache' = DOMAIN public_key_cache \ {hcDead}
               /\ \A s \in DOMAIN public_key_cache' :
                     public_key_cache'[s] = public_key_cache[s]
               /\ connections' = connections
               /\ hpc' = "sleep" => server_ids = {}]_vars
    /\ [][(hpc = "sleep" /\ hpc' # "sleep")
            => /\ hpc' = "tick"
               /\ connections' = connections
               /\ public_key_cache' = public_key_cache]_vars

\* the pool held s1 and s2; the ping of s2 failed, its connection and its
\* cached key are gone, those of s1 are there, and s1 is still to be pinged
C29_Witness ==
    /\ hpc = "ping"
    /\ ping_result = "failed"
    /\ hcDead = NoServer
    /\ server_ids = {"s1"}
    /\ DOMAIN connections = {"s1"}
    /\ "s2" \in evicted
    /\ "s1" \in DOMAIN public_key_cache
    /\ "s2" \notin DOMAIN public_key_cache


\* C30 (SpecRouter): once the connection of a server has been removed, the
\* next request for that server fetches its attestation again and makes the
\* handshake with the key it has just fetched, never with the key that was
\* cached before the removal, however the request and the health-check task
\* interleave (servers with a static key in the configuration have no
\* attestation to fetch and are left out).
C30_RefetchAfterEviction ==
    [][(/\ rpc = "connect" /\ rpc' # "connect"
        /\ server_id \in evicted
        /\ StaticKey(GetServerConfig(config, server_id)).way = "next")
          => keySrc = "fetch"]_vars


\* the router side has used the socket of server s in this step: a frame was
\* sent on it, a frame was read from it, or it was removed from the pool
RouterUse(s) ==
    \/ s \notin DOMAIN connections'
    \/ Len(connections'[s].sent) > Len(connections[s].sent)
    \/ Len(connections'[s].unread) < Len(connections[s].unread)

\* C31 (SpecPool): the socket and transport of a pool entry are used by one
\* task at a time, the one holding the write lock of the pool: a task inside
\* an exchange holds the lock, and every send, receive, ping or removal on an
\* entry is made either by the task that held the lock for an exchange on
\* that entry and now releases it, or in a step that found the lock free and
\* either releases it at once or keeps it for its own exchange on the entry.
C31_TransportNotShared ==
    /\ [](\A t \in Tasks : requests[t].pc = "await"
             => lock = t /\ requests[t].server_id \in DOMAIN connections)
    /\ [](lock # NoTask => requests[lock].pc = "await")
    /\ [][\A s \in DOMAIN connections :
            RouterUse(s)
              => \/ /\ lock = NoTask
                    /\ \/ lock' = NoTask
                       \/ /\ requests'[lock'].pc = "await"
                          /\ requests'[lock'].server_id = s
                 \/ /\ lock \in Tasks
                    /\ requests[lock].pc = "await"
                    /\ requests[lock].server_id = s
                    /\ lock' = NoTask]_vars

\* r1 waits for its response on a connection while r2, which wants the same
\* connection, and the other connection of the pool have to wait
C31_Witness ==
    /\ lock = "r1"
    /\ requests["r1"].pc = "await"
    /\ requests["r2"].pc = "forward"
    /\ requests["r2"].server_id = requests["r1"].server_id
    /\ DOMAIN connections = {"s1", "s2"}


\* C37 (SpecPool): a response that forward_request returns is the response
\* of the downstream server to the request of that same call, and a frame an
\* earlier exchange or a health-check ping left unread on the connection
\* (a late response, a pong) never makes a later call fail.
C37_ResponseOfSameRequest ==
    \A t \in Tasks :
        /\ requests[t].result.ok => requests[t].response = t
        /\ requests[t].result.msg # "Unexpected message type"

\* C38 (SpecPool): when two calls run ensure_connection for the same server
\* that has no connection, only one of them completes a handshake for it,
\* and a connection is only ever inserted for a server the pool has no
\* connection for.
C38_OneHandshakePerServer ==
    /\ [](\A t, u \in Tasks :
             (/\ requests[t].pc = "store" /\ requests[u].pc = "store"
              /\ requests[t].server_id = requests[u].server_id) => t = u)
    /\ [][\A t \in Tasks :
            (requests[t].pc = "store" /\ requests'[t].pc # "store")
               => requests[t].server_id \notin DOMAIN connections]_vars

\* C39 (SpecPool): after ensure_connection has returned the server,
\* forward_request finds its connection in the pool: no call returns
\* "Connection not found".
C39_ConnectionFound ==
    \A t \in Tasks : requests[t].result.msg # "Connection not found"

\* the downstream server has handled a frame of the socket of s, or closed it
ServerSide(s) ==
    /\ Len(connections'[s].unread) = Len(connections[s].unread) + 1
    /\ SubSeq(connections'[s].unread, 1, Len(connections[s].unread)) = connections[s].unread
    /\ \/ connections'[s].sent = <<>>
       \/ /\ connections[s].sent # <<>>
          /\ connections'[s].sent = Tail(connections[s].sent)

\* C40 (SpecPool): one exchange at most is in progress in the whole pool:
\* no two calls are between their send and their receive, and while a call
\* is there, no connection is inserted, removed, pinged, written to or read
\* from, whatever its server.
C40_OneExchangeAtATime ==
    /\ [](\A t, u \in Tasks :
             (requests[t].pc = "await" /\ requests[u].pc = "await") => t = u)
    /\ [][(\E t \in Tasks : requests[t].pc = "await" /\ requests'[t].pc = "await")
            => /\ DOMAIN connections' = DOMAIN connections
               /\ \A s \in DOMAIN connections :
                     connections'[s] = connections[s] \/ ServerSide(s)
               /\ \A u \in Tasks : requests'[u].pc = "await" => requests[u].pc = "await"]_vars

\* r1 waits for its response from s1 while r2 has completed a handshake with
\* s2 and waits for the lock to store the connection
C40_Witness ==
    /\ lock = "r1"
    /\ requests["r1"].pc = "await"
    /\ requests["r1"].server_id = "s1"
    /\ requests["r2"].pc = "store"
    /\ requests["r2"].server_id = "s2"


\* C32 (SpecEndpoint): get_attestation_endpoint returns the configured
\* attestation endpoint as it is when there is one; otherwise, for a
\* WebSocket endpoint scheme://host[:port][/path], it returns the endpoint
\* with scheme ws turned into http and wss into https, port 8081 turned into
\* 8080, and /attestation appended (to the endpoint without the "/" at its
\* end, so that the path does not start with "//").
C32_AttestationEndpoint ==
    attestation_url.some
      => IF server_config.attestation_endpoint.some
           THEN attestation_url.chars = server_config.attestation_endpoint.chars
           ELSE \A sc \in EndpointSchemes, h \in EndpointHosts, p \in EndpointPorts,
                   t \in EndpointPaths :
                  server_config.ws_endpoint = sc \o h \o p \o t
                    => attestation_url.chars =
                         (IF sc = <<"w", "s", ":", "/", "/">> THEN <<"h", "t", "t", "p", ":", "/", "/">>
                          ELSE IF sc = <<"w", "s", "s", ":", "/", "/">>
                                 THEN <<"h", "t", "t", "p", "s", ":", "/", "/">>
                                 ELSE sc)
                         \o h
                         \o (IF p = <<":", "8", "0", "8", "1">>
                               THEN <<":", "8", "0", "8", "0">> ELSE p)
                         \o (IF t = <<"/">> THEN <<>> ELSE t)
                         \o <<"/", "a", "t", "t", "e", "s", "t", "a", "t", "i", "o", "n">>

\* ws://10.0.0.1:8081 gave http://10.0.0.1:8080/attestation
C32_Witness ==
    /\ ~server_config.attestation_endpoint.some
    /\ server_config.ws_endpoint = 
         <<"w", "s", ":", "/", "/", "1", "0", ".", "0", ".", "0", ".", "1", ":", "8", "0", "8", "1">>
    /\ attestation_url = SomeText(
         <<"h", "t", "t", "p", ":", "/", "/", "1", "0", ".", "0", ".", "0", ".", "1", ":", "8", "0", "8", "0", "/", "a", "t", "t", "e", "s", "t", "a", "t", "i", "o", "n">>)


\* C36 (SpecAdmit): the permits taken from the semaphore are as many as the
\* live session tasks; the end of a session task gives one permit back; and
\* a connection accepted while a permit is free is admitted, so a connection
\* that comes after a session ended at the cap gets a session task.
C36_PermitsHeldEqualLiveSessions ==
    /\ [](MAX_CONCURRENT_CONNECTIONS - permits = live)
    /\ [][live' < live => (live' = live - 1 /\ permits' = permits + 1)]_vars
    /\ [][(backlog' < backlog /\ live < MAX_CONCURRENT_CONNECTIONS)
            => (live' = live + 1 /\ lastAccept' = "spawned" /\ dropped' = dropped)]_vars

\* a connection was rejected at the cap, and a later one was admitted into the
\* place of a session that ended: the cap is reached again
C36_Witness ==
    /\ dropped > 0
    /\ lastAccept = "spawned"
    /\ live = MAX_CONCURRENT_CONNECTIONS
    /\ permits = 0


\* C33: once the client of a session is gone (a send to it failed and the
\* session task has ended), the backend stream opened for that session is
\* abandoned: the task that reads it does not bring it to its end.
C33_DisconnectCancelsBackend ==
    [][(mode = "Server" /\ pc = "done" /\ result.msg = "io error" /\ prod = "running")
          => prod' # "closed"]_vars


\* C34 (SpecSse): the chunks the task sends are text-delta chunks followed,
\* once the task has returned and dropped the sender, by exactly one finish
\* or error chunk; while the task runs no finish or error has been sent, and
\* after it nothing is sent; a body that ends without [DONE] and without a
\* finish_reason is closed with a finish chunk of its own.
C34_DeltasThenOneTerminal ==
    /\ [](/\ sse_pc \in {"reading", "events", "returned"}
          /\ \A i \in 1..Len(sse_out) :
                sse_out[i].type \in {"finish", "error"}
                  <=> (i = Len(sse_out) /\ sse_pc = "returned")
          /\ \A i \in 1..Len(sse_out) :
                sse_out[i].type \in {"text-delta", "finish", "error"})
    /\ [][sse_pc = "returned" => sse_out' = sse_out]_vars
    /\ [][(sse_pc = "reading" /\ sse_pc' = "returned" /\ buffer' = buffer
             /\ sse_stream' = sse_stream /\ sse_stream.read = Len(sse_stream.bytes))
            => /\ Len(sse_out') = Len(sse_out) + 1
               /\ sse_out'[Len(sse_out')].type \in {"finish", "error"}]_vars

\* a body of two deltas and nothing more was read to its end: two text-delta
\* chunks and the finish chunk "stop" of the end of the stream
C34_Witness ==
    /\ sse_pc = "returned"
    /\ sse_stream.read = Len(sse_stream.bytes)
    /\ Len(sse_out) = 3
    /\ sse_out[1].type = "text-delta"
    /\ sse_out[2].type = "text-delta"
    /\ sse_out[3] = [type |-> "finish", finish_reason |-> <<115, 116, 111, 112>>]
    /\ buffer = <<>>

\* the chunks the events of a buffer give, taken one after the other up to
\* the event the task returns at
DrainBuffer[buf \in Text] ==
    LET pos == FindBlankLine(buf)
        ev == TakeEvent(buf, pos)
    IN  IF pos = 0 THEN [chunks |-> <<>>, returned |-> FALSE]
        ELSE IF ev.event.returned THEN ev.event
        ELSE After(ev.event.chunks, DrainBuffer[ev.buffer])

\* the chunks a body gives when it arrives in one read and ends there
OneRead(bytes) ==
    LET d == DrainBuffer[FromUtf8Lossy[bytes]]
    IN  IF d.returned THEN d.chunks ELSE d.chunks \o StreamEnded

\* C35 (SpecSse): the chunks sent for a response body do not depend on how
\* its bytes are split across reads: when the task has returned without a
\* stream error, it has sent what one read of the bytes it took would give.
C35_SplitIndependent ==
    (sse_pc = "returned" /\ sse_out[Len(sse_out)].type # "error")
       => sse_out = OneRead(SubSeq(sse_stream.bytes, 1, sse_stream.read))

=============================================================================
